---- MODULE Spec2Model ----
(***************************************************************************)
(* State-machine model of the conversational buying assistant:             *)
(*   src/main.py      Slack handlers, carts, approvals, purchase orders    *)
(*   src/pipeline.py  Pipeline (planner / scraper / reasoner / justifier), *)
(*                    ComplianceChecker, FirebaseManager                   *)
(* Text that the code parses (price strings, compliance narratives) is     *)
(* modelled as a sequence of characters or tokens, and the parsers are     *)
(* computed on those sequences as the code computes them.                  *)
(***************************************************************************)
EXTENDS Integers, Sequences, FiniteSets, TLC

(***************************************************************************)
(* Bounds of the model.                                                    *)
(***************************************************************************)
\* total number of items held in all carts together
MaxItems == 2
\* number of approval-request messages kept in the manager's channel
MaxInbox == 2
\* the clock (seconds) runs from 0 to MaxTime
MaxTime == 1
\* longest chain of CSV files (csv_chain) a run may leave behind
MaxChain == 3
\* number of handlers that can be waiting for a collaborator at the same time
MaxThreads == 2

(***************************************************************************)
(* Users and the catalog the search collaborator can return.               *)
(***************************************************************************)
Users == {"U1", "U2"}

\* manager_user_id, main.py:556
manager_user_id == "U09K388GH1P"

\* A price string is a sequence of characters; "R" stands for the rupee sign.
Price30000 == <<"R", "3", "0", ",", "0", "0", "0">>
Price1500_50 == <<"R", "1", ",", "5", "0", "0", ".", "5", "0">>
\* a row whose price column is missing (None in the scraped row)
PriceMissing == <<>>

\* Product rows: the fields of Scraper.run's rows that the handlers read
\* (rating, reviews, link and image are only rendered).
Mouse == [title |-> "Mouse", price |-> Price30000, source |-> "Amazon"]
Pad == [title |-> "Pad", price |-> Price1500_50, source |-> "Flipkart"]
\* a row whose source column is missing: it is read back from the CSV as NaN,
\* which is not a string
NaN == "<NaN>"

Cable == [title |-> "Cable", price |-> PriceMissing, source |-> NaN]

Catalog == {Mouse, Pad, Cable}

\* product.get('id', f'prod_{hash(title)}'): rows carry no 'id' column, so the
\* identifier is a function of the title alone.
ProductId(p) == <<"prod_", p.title>>

ProductIds == {ProductId(p) : p \in Catalog}

\* quantities the quantity selector / custom-quantity modal can put on the button
Quantities == {1, 3}

(***************************************************************************)
(* parse_price, main.py:86-94.  The result is in hundredths of a rupee.     *)
(***************************************************************************)
Digits == {"0", "1", "2", "3", "4", "5", "6", "7", "8", "9"}

DigitVal(c) ==
    CASE c = "0" -> 0 [] c = "1" -> 1 [] c = "2" -> 2 [] c = "3" -> 3
      [] c = "4" -> 4 [] c = "5" -> 5 [] c = "6" -> 6 [] c = "7" -> 7
      [] c = "8" -> 8 [] c = "9" -> 9

IsDigitOrDot(c) == c \in Digits \cup {"."}

\* re.sub(r'[^\d.]', '', price_str)
CleanPrice(price_str) == SelectSeq(price_str, IsDigitOrDot)

RECURSIVE DecimalValue(_)
DecimalValue(ds) ==
    IF ds = <<>> THEN 0
    ELSE 10 * DecimalValue(SubSeq(ds, 1, Len(ds) - 1)) + DigitVal(ds[Len(ds)])

\* float(cleaned): one optional dot, at least one digit; anything else raises
\* ValueError.  Fractions are kept to two places.
FloatOk(s) ==
    /\ Cardinality({i \in 1..Len(s) : s[i] = "."}) <= 1
    /\ \E i \in 1..Len(s) : s[i] \in Digits

FloatValue(s) ==
    LET dots == {i \in 1..Len(s) : s[i] = "."}
    IN IF dots = {} THEN 100 * DecimalValue(s)
       ELSE LET d == CHOOSE i \in dots : TRUE
                whole == SubSeq(s, 1, d - 1)
                frac == SubSeq(s, d + 1, Len(s))
                f2 == IF Len(frac) = 0 THEN 0
                      ELSE IF Len(frac) = 1 THEN 10 * DecimalValue(frac)
                      ELSE DecimalValue(SubSeq(frac, 1, 2))
            IN 100 * DecimalValue(whole) + f2

parse_price(price_str) ==
    LET cleaned_price == CleanPrice(price_str)
    IN IF FloatOk(cleaned_price) THEN FloatValue(cleaned_price) ELSE 0

(***************************************************************************)
(* ComplianceChecker, pipeline.py:1052-1246.  A narrative is a sequence of *)
(* tokens: the literal label, markup characters, and words (maximal runs   *)
(* of \w characters).                                                      *)
(***************************************************************************)
Label == "Compliance Status:"

\* the characters of the class [*\s]
Markup == {"*", " ", "\n"}

ThinkOpen == "<think>"
ThinkClose == "</think>"

NonWord == Markup \cup {Label, "-", ",", ":", ".", ThinkOpen, ThinkClose}

IsWord(t) == t \notin NonWord

\* the strings the handlers compare the captured token with
Str_Compliant == <<"Compliant">>
Str_NeedsApproval == <<"Needs", " ", "Approval">>
Str_NonCompliant == <<"Non", "-", "Compliant">>
Str_Unknown == <<"Unknown">>

\* raw answers of the compliance oracle (chat completion), pipeline.py:1166-1176
Raw_Compliant ==
    <<"1", ".", " ", "*", "*", Label, "*", "*", " ", "Compliant", "\n",
      "2", ".", " ", "Within", " ", "limit">>
Raw_NeedsApproval ==
    <<"*", "*", Label, "*", "*", " ", "Needs", " ", "Approval", "\n",
      "Manager", " ", "approval", " ", "required">>
Raw_NonCompliant ==
    <<"*", "*", Label, "*", "*", " ", "Non", "-", "Compliant", "\n",
      "Vendor", " ", "not", " ", "approved">>
Raw_NoStatus == <<"The", " ", "request", " ", "looks", " ", "fine">>
Raw_Tight == <<Label, "Compliant">>
Raw_Pending == <<Label, " ", "Pending">>
Raw_Think ==
    <<ThinkOpen, Label, " ", "Compliant", ThinkClose, "\n",
      Label, " ", "Non", "-", "Compliant">>

\* the chat completion raises (no API key, network error, rate limit)
OracleError == <<"<exception>">>

FirstIndex(s, from, t) ==
    LET hits == {i \in from..Len(s) : s[i] = t}
    IN IF hits = {} THEN 0 ELSE CHOOSE i \in hits : \A j \in hits : i <= j

\* re.sub(r'<think>.*?</think>', '', response, flags=DOTALL)
RECURSIVE RemoveThink(_)
RemoveThink(s) ==
    LET i == FirstIndex(s, 1, ThinkOpen)
        j == IF i = 0 THEN 0 ELSE FirstIndex(s, i + 1, ThinkClose)
    IN IF i = 0 \/ j = 0 THEN s
       ELSE RemoveThink(SubSeq(s, 1, i - 1) \o SubSeq(s, j + 1, Len(s)))

\* re.sub(r'\n{3,}', '\n\n', cleaned)
RECURSIVE CollapseNewlines(_)
CollapseNewlines(s) ==
    LET runs == {i \in 3..Len(s) : s[i] = "\n" /\ s[i-1] = "\n" /\ s[i-2] = "\n"}
    IN IF runs = {} THEN s
       ELSE LET i == CHOOSE k \in runs : \A j \in runs : k <= j
            IN CollapseNewlines(SubSeq(s, 1, i - 1) \o SubSeq(s, i + 1, Len(s)))

Whitespace == {" ", "\n"}

\* str.strip()
RECURSIVE Strip(_)
Strip(s) ==
    IF s = <<>> THEN s
    ELSE IF s[1] \in Whitespace THEN Strip(Tail(s))
    ELSE IF s[Len(s)] \in Whitespace THEN Strip(SubSeq(s, 1, Len(s) - 1))
    ELSE s

\* ComplianceChecker._clean_response, pipeline.py:1191-1203 (the oracle answers
\* of the model carry no **think** or ...think... markers)
clean_response(response) == Strip(CollapseNewlines(RemoveThink(response)))

\* role limits of the rule-based fallback, in rupees
LimitJuniorStaff == 25000
LimitSeniorStaff == 50000
LimitManager == 100000
LimitDirector == 500000
LimitDefault == 25000

\* roles a user can type into the preferences modal; "Unknown" is the default
\* the handlers use for a user without preferences
RoleInputs == {"Junior Staff", "Manager"}

\* str.lower() on the role strings of the model
Lower(role) ==
    CASE role = "Junior Staff" -> "junior staff"
      [] role = "Senior Staff" -> "senior staff"
      [] role = "Manager" -> "manager"
      [] role = "Director" -> "director"
      [] OTHER -> "unknown"

\* limits.get(user_role.lower(), 25000)
UserLimit(user_role) ==
    LET r == Lower(user_role)
    IN CASE r = "junior staff" -> LimitJuniorStaff
         [] r = "senior staff" -> LimitSeniorStaff
         [] r = "manager" -> LimitManager
         [] r = "director" -> LimitDirector
         [] OTHER -> LimitDefault

\* ComplianceChecker._basic_compliance_check, pipeline.py:1205-1236
\* (product_price is in hundredths of a rupee)
basic_compliance_check(user_role, product_price) ==
    LET user_limit == UserLimit(user_role)
        compliance_status ==
            IF product_price <= 100 * user_limit
            THEN Str_Compliant ELSE Str_NeedsApproval
    IN <<"\n", "*", "*", "COMPLIANCE", " ", "ANALYSIS", "*", "*", "\n", "\n",
         "*", "*", Label, "*", "*", " ">>
       \o compliance_status
       \o <<"\n", "\n", "*", "*", "Allowance", " ", "Analysis", ":", "*", "*", "\n">>

Apology == <<"I", " ", "apologize", ",", " ", "but", " ", "I", " ",
             "encountered", " ", "an", " ", "error">>

\* the fallback path of check_compliance (pipeline.py:1184-1189): vendor.lower()
\* raises for a vendor that is not a string, and the apology is returned
FallbackResult(user_role, product_price, vendor) ==
    IF vendor = NaN THEN Apology
    ELSE basic_compliance_check(user_role, product_price)

\* ComplianceChecker.check_compliance, pipeline.py:1122-1189: reply is the
\* chat completion's raw answer, or OracleError when the call raises
check_compliance(user_role, product_price, vendor, reply) ==
    IF reply = OracleError
    THEN FallbackResult(user_role, product_price, vendor)
    ELSE clean_response(reply)

\* re.search(r"Compliance Status:[*\s]+(\w+(?:-\w+)?)", compliance_result):
\* the label, one or more markup characters, then a word, optionally followed
\* by a hyphen and a word.
AfterMarkup(n, i) ==
    LET rest == {j \in (i + 1)..Len(n) : n[j] \notin Markup}
    IN IF rest = {} THEN Len(n) + 1
       ELSE CHOOSE j \in rest : \A k \in rest : j <= k

MatchesAt(n, i) ==
    /\ n[i] = Label
    /\ i + 1 <= Len(n)
    /\ n[i + 1] \in Markup
    /\ AfterMarkup(n, i) <= Len(n)
    /\ IsWord(n[AfterMarkup(n, i)])

GroupAt(n, i) ==
    LET j == AfterMarkup(n, i)
    IN IF j + 2 <= Len(n) /\ n[j + 1] = "-" /\ IsWord(n[j + 2])
       THEN <<n[j], "-", n[j + 2]>>
       ELSE <<n[j]>>

\* compliance_status = match.group(1) if match else "Unknown"
ExtractStatus(compliance_result) ==
    LET hits == {i \in 1..Len(compliance_result) : MatchesAt(compliance_result, i)}
    IN IF hits = {} THEN Str_Unknown
       ELSE GroupAt(compliance_result, CHOOSE i \in hits : \A j \in hits : i <= j)

\* Variant of CartStatus that fails open: a token that is neither verdict the
\* handler knows leaves the item approvable (sensitivity of C3).
CartStatus_FailOpen(compliance_status) ==
    IF compliance_status = Str_Compliant THEN "Recommended"
    ELSE IF compliance_status = Str_NonCompliant THEN "Non Compliant"
    ELSE "Awaiting Approval"

\* Variant of CartStatus that stores "Unknown" for a token that is no verdict
\* the handler knows (sensitivity of C36).
CartStatus_Unknown(compliance_status) ==
    IF compliance_status = Str_Compliant THEN "Recommended"
    ELSE IF compliance_status = Str_NonCompliant THEN "Non Compliant"
    ELSE "Unknown"

\* the status written to the cart item, main.py:446-450, 743-747, 817-821
CartStatus(compliance_status) ==
    IF compliance_status = Str_Compliant THEN "Recommended"
    ELSE IF compliance_status = Str_NeedsApproval THEN "Awaiting Approval"
    ELSE "Non Compliant"

\* whether the compliance modal carries the Seek Approval button, main.py:478
ShowsSeekButton(compliance_status) ==
    compliance_status \in {Str_NeedsApproval, Str_NonCompliant}

(***************************************************************************)
(* Dictionaries (Python dict) as functions with a finite domain.           *)
(***************************************************************************)
EmptyMap == [k \in {} |-> k]

Put(m, k, v) == [x \in DOMAIN m \cup {k} |-> IF x = k THEN v ELSE m[x]]

Del(m, k) == [x \in DOMAIN m \ {k} |-> m[x]]

(***************************************************************************)
(* State.                                                                  *)
(***************************************************************************)
VARIABLES
    user_preferences,   \* main.py:37   user -> [preferences, role]
    welcome_sent,       \* main.py:38   users the welcome was marked sent for
    pending_queries,    \* main.py:39   user -> buffered utterance
    user_carts,         \* main.py:40   user -> list of cart items
    pipeline,           \* main.py:22   the one Pipeline instance (and its Reasoner)
    files,              \* local CSV files: name -> rows
    logs,               \* Firestore "Logs" collection: query hash -> entry
    bucket,             \* Firebase storage: path -> rows
    now,                \* the clock read by datetime.now(), in seconds
    manager_inbox,      \* approval requests posted to the manager's channel
    seek_modal,         \* user -> product ids whose open compliance modal has a Seek Approval button
    shown,              \* user -> product ids of the product cards posted to the user
    last_po,            \* the purchase order built by the last handler (NoPO if none)
    order_numbers,      \* the order numbers of the purchase orders built so far
    oracle_log,         \* compliance-oracle answers received by the last handler
    run_log,            \* invocations of Pipeline.run made by the last handler
    welcome_delivered,  \* users who received the welcome message with the Set Preferences button
    outbox,             \* messages posted by the last handler
    in_flight,          \* handlers running on worker threads, with their local variables
    add_button          \* user -> product id -> the Add to Cart button of the product's card

vars == <<user_preferences, welcome_sent, pending_queries, user_carts, pipeline,
          files, logs, bucket, now, manager_inbox, seek_modal, shown,
          last_po, order_numbers, oracle_log, run_log, welcome_delivered, outbox,
          in_flight, add_button>>

main_vars == <<user_preferences, welcome_sent, pending_queries, user_carts>>
pipeline_vars == <<pipeline, files, logs, bucket>>

\* "" / None for a file name, and None for a product name
NoFile == <<>>
NoName == ""

\* Pipeline.__init__, pipeline.py:1350-1373, and Reasoner.__init__, 964-974
PipelineInit ==
    [previous_csv_file |-> NoFile,
     original_csv_file |-> NoFile,
     last_results |-> <<>>,
     user_preferences |-> <<>>,
     current_product_name |-> NoName,
     csv_chain |-> <<>>,
     last_generated_csv |-> NoFile,
     generator_csv_path |-> NoFile,
     generator_df |-> <<>>,
     reasoner_product_name |-> NoName]

\* generate_purchase_order's None
NoPO == [document_type |-> "None"]

Init ==
    /\ user_preferences = EmptyMap
    /\ welcome_sent = {}
    /\ pending_queries = EmptyMap
    /\ user_carts = [u \in Users |-> <<>>]
    /\ pipeline = PipelineInit
    /\ files = EmptyMap
    /\ logs = EmptyMap
    /\ bucket = EmptyMap
    /\ now = 0
    /\ manager_inbox = <<>>
    /\ seek_modal = [u \in Users |-> {}]
    /\ shown = [u \in Users |-> {}]
    /\ last_po = NoPO
    /\ order_numbers = {}
    /\ oracle_log = <<>>
    /\ run_log = <<>>
    /\ welcome_delivered = {}
    /\ outbox = {}
    /\ in_flight = <<>>
    /\ add_button = [u \in Users |-> EmptyMap]

\* a message posted to a Slack channel
Msg(channel, text) == [channel |-> channel, text |-> text]

(***************************************************************************)
(* The pipeline, pipeline.py.  Its operations are computed on a "world":   *)
(* the Pipeline object with the stores it reads and writes.  The answers   *)
(* of the external collaborators for one run are the record e:             *)
(*   planner_ok, plan   the planner's answer (or its exception)            *)
(*   scrape             the usable rows of the catalog search              *)
(*   code, mask         what the generated pandas code evaluates to        *)
(*   save_ok            whether the result CSV could be written            *)
(*   download_ok        whether the cached CSV could be downloaded         *)
(* The field calls of a world lists what the run did with them, in order.  *)
(***************************************************************************)
World == [pl |-> pipeline, files |-> files, logs |-> logs, bucket |-> bucket,
          calls |-> <<>>]

\* the run in world w reached this call
Called(w, call) == [w EXCEPT !.calls = Append(@, call)]

\* what Pipeline.run returns: a string or a list of rows
StrResponse(text) == [kind |-> "str", text |-> text, results |-> <<>>]
ListResponse(results) == [kind |-> "list", text |-> "", results |-> results]

\* plans the planner can answer with
Step(agent, keywords, tapas_query) ==
    [agent |-> agent, keywords |-> keywords, tapas_query |-> tapas_query]

Plan(query_type, steps) == [query_type |-> query_type, has_steps |-> TRUE, steps |-> steps]

\* a parsed plan without "query_type" and without "steps"
MalformedPlan == [query_type |-> "", has_steps |-> FALSE, steps |-> <<>>]

\* the one-row frame save_result_to_csv writes for a scalar, and the record
\* Reasoner.process returns for it
ScalarFileRow == [result |-> "scalar", query |-> "q"]
ScalarResult == [result |-> "scalar", type |-> "scalar"]

IsProductRow(r) == "title" \in DOMAIN r

\* query.lower().strip() on the utterances of the model
NormalizeQuery(query) ==
    CASE query = " Find Mouse" -> "find mouse"
      [] OTHER -> query

\* FirebaseManager.generate_query_hash, pipeline.py:90-92 (md5 taken as injective)
generate_query_hash(query) == <<"md5", NormalizeQuery(query)>>

\* file names
ScrapedFile(product_name) == <<"data", product_name>>
ResultFile(pandas_query, t) == <<"query_result", pandas_query, t>>
CachedFile(csv_file_name) == <<"cached", csv_file_name>>
FirebasePath(product_name, file_name) == <<"Data", product_name, file_name>>

\* FirebaseManager.upload_csv_to_storage, pipeline.py:58-88
upload_csv_to_storage(w, local_file_path, product_name) ==
    IF local_file_path \notin DOMAIN w.files THEN w
    ELSE [w EXCEPT !.bucket = Put(@, FirebasePath(product_name, local_file_path),
                                  w.files[local_file_path])]

\* the rows of s at the positions in mask, in order
Pick(s, mask) ==
    LET F[i \in 0..Len(s)] ==
            IF i = 0 THEN <<>>
            ELSE IF i \in mask THEN Append(F[i - 1], s[i]) ELSE F[i - 1]
    IN F[Len(s)]

\* GroqPandasCodeGenerator.save_result_to_csv, pipeline.py:879-912
save_result_to_csv(w, t, e, content, query, product_name) ==
    IF ~e.save_ok THEN [w |-> w, filename |-> NoFile]
    ELSE [w |-> IF product_name # NoName
                THEN upload_csv_to_storage(
                         [w EXCEPT !.files = Put(@, ResultFile(query, t), content)],
                         ResultFile(query, t), product_name)
                ELSE [w EXCEPT !.files = Put(@, ResultFile(query, t), content)],
          filename |-> ResultFile(query, t)]

\* what the generated pandas code evaluates to on df: the frame written to the
\* result CSV, and the list GroqPandasCodeGenerator.query returns
QueryContent(e, df) ==
    IF e.code = "frame" THEN Pick(df, e.mask) ELSE <<ScalarFileRow>>

QueryResults(e, df) ==
    IF e.code = "frame" THEN Pick(df, e.mask)
    ELSE IF e.code = "scalar" THEN <<ScalarResult>>
    ELSE <<>>

\* Reasoner.process records the file save_result_to_csv reported, pipeline.py:992-1002
RecordGenerated(saved, results) ==
    [w |-> [saved.w EXCEPT !.pl.last_generated_csv = saved.filename,
                           !.calls = IF saved.filename # NoFile
                                     THEN Append(@, "reasoner_saved") ELSE @],
     results |-> results]

\* GroqPandasCodeGenerator.query, pipeline.py:914-958, called with
\* save_to_csv=True on the loaded frame
GeneratorQuery(w, t, e, pandas_query) ==
    IF e.code = "error" THEN [w |-> w, results |-> <<>>]
    ELSE RecordGenerated(
             save_result_to_csv(w, t, e, QueryContent(e, w.pl.generator_df),
                                pandas_query, w.pl.reasoner_product_name),
             QueryResults(e, w.pl.generator_df))

\* the generator is (re)initialised when it holds no frame or another file's
NeedsInit(pl, csv_file) ==
    pl.generator_csv_path = NoFile \/ pl.generator_csv_path # csv_file

\* Reasoner.process after the product name is stored, pipeline.py:990-1044
ReasonerLoad(w, t, e, pandas_query, csv_file) ==
    IF NeedsInit(w.pl, csv_file) /\ csv_file \notin DOMAIN w.files
    THEN [w |-> w, results |-> <<>>]
    ELSE GeneratorQuery(
             [w EXCEPT !.pl.generator_df =
                           IF NeedsInit(w.pl, csv_file) THEN w.files[csv_file] ELSE @,
                       !.pl.generator_csv_path = csv_file],
             t, e, pandas_query)

\* Reasoner.process, pipeline.py:976-1044
ReasonerProcess(w, t, e, pandas_query, csv_file, product_name) ==
    ReasonerLoad([w EXCEPT !.pl.reasoner_product_name =
                               IF product_name # NoName THEN product_name ELSE @],
                 t, e, pandas_query, csv_file)

\* Scraper.run, pipeline.py:584-641
ScraperRun(w, e, keywords) ==
    IF e.scrape = <<>> THEN [w |-> Called(w, "scraper"), csv_file |-> NoFile]
    ELSE [w |-> upload_csv_to_storage(
                    [w EXCEPT !.files = Put(@, ScrapedFile(keywords), e.scrape),
                              !.calls = Append(@, "scraper")],
                    ScrapedFile(keywords), keywords),
          csv_file |-> ScrapedFile(keywords)]

\* FirebaseManager.log_query_to_firestore, pipeline.py:94-137
log_query_to_firestore(w, query, product_name, csv_file_name) ==
    [w EXCEPT !.logs = Put(@, generate_query_hash(query),
                           [query |-> query,
                            product_name |-> product_name,
                            csv_file_name |-> csv_file_name,
                            firebase_path |-> FirebasePath(product_name, csv_file_name)])]

\* the file the reasoner generated becomes the active file and joins the
\* chain, pipeline.py:1536-1540 and 1462-1466
ChainGenerated(w) ==
    IF w.pl.last_generated_csv # NoFile /\ w.pl.last_generated_csv \in DOMAIN w.files
    THEN [w EXCEPT !.pl.previous_csv_file = w.pl.last_generated_csv,
                   !.pl.csv_chain = Append(@, w.pl.last_generated_csv)]
    ELSE w

\* a scraper step of Pipeline._handle_new_query, pipeline.py:1515-1526.
\* acc = [w, csv_file, results, reasoned_csv_file, returned, response]
AfterScraper(acc, sc) ==
    IF sc.csv_file = NoFile
    THEN [acc EXCEPT !.w = sc.w, !.returned = TRUE,
                     !.response = StrResponse("Failed to scrape product data")]
    ELSE [acc EXCEPT !.w = [sc.w EXCEPT !.pl.original_csv_file = sc.csv_file,
                                        !.pl.previous_csv_file = sc.csv_file,
                                        !.pl.csv_chain = <<sc.csv_file>>,
                                        !.calls = Append(@, "rooted")],
                     !.csv_file = sc.csv_file]

\* a reasoner step of Pipeline._handle_new_query, pipeline.py:1528-1547
AfterReasoner(acc, r) ==
    [acc EXCEPT !.w = ChainGenerated(r.w), !.results = r.results,
                !.reasoned_csv_file = r.w.pl.last_generated_csv]

\* one iteration of the loop over plan["steps"], pipeline.py:1512-1547
NewQueryStep(acc, t, e, step) ==
    IF step.agent = "scraper"
    THEN AfterScraper(acc,
             ScraperRun([acc.w EXCEPT !.pl.current_product_name = step.keywords],
                        e, step.keywords))
    ELSE IF step.agent = "reasoner"
    THEN AfterReasoner(acc,
             ReasonerProcess(acc.w, t, e, step.tapas_query, acc.csv_file,
                             acc.w.pl.current_product_name))
    ELSE acc

RECURSIVE NewQuerySteps(_, _, _, _)
NewQuerySteps(acc, t, e, steps) ==
    IF steps = <<>> \/ acc.returned THEN acc
    ELSE NewQuerySteps(NewQueryStep(acc, t, e, Head(steps)), t, e, Tail(steps))

\* Variant of CacheHit that never finds the query in the cache (sensitivity
\* of C15).
CacheHit_Never(w, e, original_query) == FALSE

\* the cache lookup of Pipeline._handle_new_query, pipeline.py:1486-1489, with
\* FirebaseManager.check_query_exists (139-164) and download_csv_from_storage (166-184)
CacheHit(w, e, original_query) ==
    /\ generate_query_hash(original_query) \in DOMAIN w.logs
    /\ e.download_ok
    /\ w.logs[generate_query_hash(original_query)].firebase_path \in DOMAIN w.bucket

\* the lookup did not serve the query, pipeline.py:1486-1498: the query is not
\* logged, the storage did not answer, or the logged path holds no file
CacheMiss(w, e, original_query) ==
    IF generate_query_hash(original_query) \notin DOMAIN w.logs
    THEN Called(w, "not_cached")
    ELSE IF ~e.download_ok THEN Called(w, "download_unavailable")
    ELSE Called(w, "blob_missing")

\* the cached rows are served, pipeline.py:1490-1507
ServeCached(w, cached_log) ==
    [w |-> [w EXCEPT !.files = Put(@, CachedFile(cached_log.csv_file_name),
                                   w.bucket[cached_log.firebase_path]),
                     !.pl.last_results = w.bucket[cached_log.firebase_path],
                     !.pl.previous_csv_file = CachedFile(cached_log.csv_file_name),
                     !.pl.original_csv_file = CachedFile(cached_log.csv_file_name),
                     !.pl.current_product_name = cached_log.product_name,
                     !.pl.csv_chain = <<CachedFile(cached_log.csv_file_name)>>],
     response |-> ListResponse(w.bucket[cached_log.firebase_path])]

\* the query is logged when a result file and a product name exist, pipeline.py:1552-1560
LogNewQuery(acc, original_query) ==
    IF acc.reasoned_csv_file # NoFile /\ acc.w.pl.current_product_name # NoName
    THEN log_query_to_firestore(Called(acc.w, "logged"), original_query,
                                acc.w.pl.current_product_name, acc.reasoned_csv_file)
    ELSE acc.w

\* what Pipeline._handle_new_query returns after the steps, pipeline.py:1549-1567
NewQueryResponse(acc, original_query) ==
    IF acc.returned THEN [w |-> acc.w, response |-> acc.response]
    ELSE IF acc.results = <<>>
    THEN [w |-> acc.w, response |-> StrResponse("No products found matching your criteria")]
    ELSE [w |-> [LogNewQuery(acc, original_query) EXCEPT !.pl.last_results = acc.results],
          response |-> ListResponse(acc.results)]

\* Pipeline._handle_new_query, pipeline.py:1481-1567
handle_new_query(w, t, e, plan, original_query) ==
    IF CacheHit(w, e, original_query)
    THEN ServeCached(Called(w, "cache_hit"), w.logs[generate_query_hash(original_query)])
    ELSE IF ~plan.has_steps
    THEN [w |-> CacheMiss(w, e, original_query),
          response |-> StrResponse("I couldn't process your new query")]
    ELSE NewQueryResponse(
             NewQuerySteps([w |-> CacheMiss(w, e, original_query),
                            csv_file |-> NoFile, results |-> <<>>,
                            reasoned_csv_file |-> NoFile, returned |-> FALSE,
                            response |-> StrResponse("")],
                           t, e, plan.steps),
             original_query)

\* the filtered file becomes the active file and is uploaded, pipeline.py:1462-1470
KeepFiltered(w) ==
    IF w.pl.last_generated_csv # NoFile /\ w.pl.last_generated_csv \in DOMAIN w.files
    THEN IF w.pl.current_product_name # NoName
         THEN upload_csv_to_storage(ChainGenerated(w), w.pl.last_generated_csv,
                                    w.pl.current_product_name)
         ELSE ChainGenerated(w)
    ELSE w

\* what Pipeline._handle_follow_up returns for the reasoner's answer r,
\* pipeline.py:1456-1479
FollowUpResponse(r) ==
    IF r.results = <<>>
    THEN [w |-> r.w, response |-> StrResponse("No products match your filter criteria")]
    ELSE [w |-> [KeepFiltered(r.w) EXCEPT !.pl.last_results = r.results],
          response |-> ListResponse(r.results)]

\* Pipeline._handle_follow_up, pipeline.py:1433-1479
handle_follow_up(w, t, e, plan, original_query) ==
    IF w.pl.previous_csv_file = NoFile \/ w.pl.previous_csv_file \notin DOMAIN w.files
    THEN handle_new_query(w, t, e, plan, original_query)
    ELSE IF ~plan.has_steps \/ plan.steps = <<>>
    THEN [w |-> w, response |-> StrResponse("I couldn't filter the previous results")]
    ELSE FollowUpResponse(
             ReasonerProcess(w, t, e, plan.steps[1].tapas_query,
                             w.pl.previous_csv_file, w.pl.current_product_name))

\* Variant of handle_justification that drops the active artifact once it has
\* read it (sensitivity of C32).
handle_justification_Consumes(w, plan) ==
    [w |-> [w EXCEPT !.pl.previous_csv_file = NoFile, !.pl.last_results = <<>>],
     response |-> StrResponse("justification")]

\* Pipeline._handle_justification, pipeline.py:1419-1431 (Justifier.run only
\* reads the active CSV)
handle_justification(w, plan) ==
    IF ~plan.has_steps \/ plan.steps = <<>>
    THEN [w |-> w, response |-> StrResponse("I couldn't generate a proper justification")]
    ELSE [w |-> w, response |-> StrResponse("justification")]

\* Pipeline.run, pipeline.py:1388-1417
PipelineRun(w, t, e, query) ==
    IF ~e.planner_ok
    THEN [w |-> w, response |-> StrResponse("I encountered an error while processing your query")]
    ELSE
      LET plan == e.plan
          query_type == IF plan.query_type = "" THEN "new" ELSE plan.query_type
      IN IF query_type = "justification"
         THEN handle_justification(Called(w, "justification"), plan)
         ELSE IF query_type = "follow_up"
         THEN handle_follow_up(Called(w, "follow_up"), t, e, plan, query)
         ELSE handle_new_query(Called(w, "new"), t, e, plan, query)

\* Pipeline.set_preferences, pipeline.py:1375-1378
set_preferences(pl, preferences) == [pl EXCEPT !.user_preferences = preferences]

(***************************************************************************)
(* Purchase orders, main.py:96-137.                                        *)
(***************************************************************************)
\* Variant of Eligible that admits every checked item (sensitivity of C4).
Eligible_AnyChecked(item) == item.compliance_status # "In cart"

Eligible(item) == item.compliance_status \in {"Recommended", "Approved"}

GroupIndex(groups, vendor) ==
    LET hits == {i \in 1..Len(groups) : groups[i].vendor_source = vendor}
    IN IF hits = {} THEN 0 ELSE CHOOSE i \in hits : TRUE

\* vendor_groups[vendor] = [] for a vendor seen for the first time, main.py:111-112
WithGroup(groups, vendor) ==
    IF GroupIndex(groups, vendor) = 0
    THEN Append(groups, [vendor_source |-> vendor, line_items |-> <<>>])
    ELSE groups

\* Variant of Line that forgets the quantity in the total (sensitivity of C7).
Line_UnitTotal(item, amount_each) ==
    [quantity |-> item.quantity,
     description |-> item.product.title,
     amount_each |-> amount_each,
     total_amount |-> amount_each]

\* the line of an item, main.py:117-122
Line(item, amount_each) ==
    [quantity |-> item.quantity,
     description |-> item.product.title,
     amount_each |-> amount_each,
     total_amount |-> amount_each * item.quantity]

\* one iteration of the loop over valid_items, main.py:108-122: groups already
\* holds the item's vendor
AddLine(groups, item) ==
    IF parse_price(item.product.price) = 0 THEN groups
    ELSE [groups EXCEPT ![GroupIndex(groups, item.product.source)].line_items =
              Append(@, Line(item, parse_price(item.product.price)))]

RECURSIVE VendorGroups(_)
VendorGroups(valid_items) ==
    IF valid_items = <<>> THEN <<>>
    ELSE AddLine(WithGroup(VendorGroups(SubSeq(valid_items, 1, Len(valid_items) - 1)),
                           valid_items[Len(valid_items)].product.source),
                 valid_items[Len(valid_items)])

\* the order number is "PO" followed by int(datetime.now().timestamp())
OrderNumber(t) == <<"PO", t>>

\* Variant of generate_purchase_order without the early return for a cart that
\* has no eligible item (sensitivity of C9).
generate_purchase_order_AlwaysOrder(cart, t) ==
    IF cart = <<>> THEN NoPO
    ELSE [document_type |-> "Purchase Order",
          currency |-> "INR",
          order_number |-> OrderNumber(t),
          lines |-> VendorGroups(SelectSeq(cart, Eligible))]

generate_purchase_order(cart, t) ==
    LET valid_items == SelectSeq(cart, Eligible)
    IN IF cart = <<>> \/ valid_items = <<>> THEN NoPO
       ELSE [document_type |-> "Purchase Order",
             currency |-> "INR",
             order_number |-> OrderNumber(t),
             lines |-> VendorGroups(valid_items)]

(***************************************************************************)
(* Cart handlers, main.py:400-940 and 1056-1085.                           *)
(***************************************************************************)
TotalItems == LET RECURSIVE Sum(_)
                  Sum(S) == IF S = {} THEN 0
                            ELSE LET u == CHOOSE x \in S : TRUE
                                 IN Len(user_carts[u]) + Sum(S \ {u})
              IN Sum(Users)

\* the index of the first cart item with this product id, or 0
FindInCart(cart, product_id) ==
    LET hits == {i \in 1..Len(cart) : ProductId(cart[i].product) = product_id}
    IN IF hits = {} THEN 0 ELSE CHOOSE i \in hits : \A j \in hits : i <= j

\* user_preferences.get(user_id, {}).get("role", "Unknown")
RoleOf(u) == IF u \in DOMAIN user_preferences THEN user_preferences[u].role ELSE "Unknown"

\* the texts check_compliance can return for a cart item when the oracle's
\* reply is one of oracle
OracleAnswers(u, item, oracle) ==
    {check_compliance(RoleOf(u), parse_price(item.product.price),
                      item.product.source, reply) : reply \in oracle}

\* the status a compliance check writes for an oracle answer
CheckedStatus(compliance_result) == CartStatus(ExtractStatus(compliance_result))

\* oracle_log, run_log and last_po describe the last handler only
Quiet == /\ oracle_log' = <<>>
         /\ run_log' = <<>>
         /\ last_po' = NoPO

\* handle_add_to_cart, main.py:1056-1095
handle_add_to_cart(u, product_id, quantity) ==
    /\ product_id \in shown[u]
    /\ TotalItems < MaxItems
    /\ LET results == pipeline.last_results
           hits == {i \in 1..Len(results) :
                       IsProductRow(results[i]) /\ ProductId(results[i]) = product_id}
           crash == \E i \in 1..Len(results) :
                       /\ ~IsProductRow(results[i])
                       /\ \A j \in hits : i < j
       IN IF crash THEN
             \* p["title"] raises KeyError on a scalar row: the handler aborts
             /\ outbox' = {}
             /\ UNCHANGED user_carts
          ELSE IF hits = {} THEN
             /\ outbox' = {Msg(u, "Error: Product not found")}
             /\ UNCHANGED user_carts
          ELSE
             LET product == results[CHOOSE i \in hits : \A j \in hits : i <= j]
             IN /\ user_carts' = [user_carts EXCEPT ![u] =
                       Append(@, [product |-> product, quantity |-> quantity,
                                  compliance_status |-> "In cart"])]
                /\ outbox' = {Msg(u, "Added to your cart")}
    /\ Quiet
    /\ UNCHANGED <<user_preferences, welcome_sent, pending_queries, pipeline_vars, now, in_flight,
                   manager_inbox, seek_modal, shown, add_button, order_numbers, welcome_delivered>>

\* handle_remove_from_cart, main.py:890-940
handle_remove_from_cart(u, product_id) ==
    /\ product_id \in shown[u]
    /\ LET cart == user_carts[u]
           idx == FindInCart(cart, product_id)
       IN IF idx = 0 THEN
             /\ outbox' = {Msg(u, "Error: Product not found in cart")}
             /\ UNCHANGED user_carts
          ELSE
             /\ user_carts' = [user_carts EXCEPT ![u] =
                    SubSeq(cart, 1, idx - 1) \o SubSeq(cart, idx + 1, Len(cart))]
             /\ outbox' = {Msg(u, "Removed from your cart")}
    /\ Quiet
    /\ UNCHANGED <<user_preferences, welcome_sent, pending_queries, pipeline_vars, now, in_flight,
                   manager_inbox, seek_modal, shown, add_button, order_numbers, welcome_delivered>>

\* handle_check_compliance, main.py:400-527
handle_check_compliance(u, product_id, oracle) ==
    /\ product_id \in shown[u]
    /\ LET cart == user_carts[u]
           cart_item_index == FindInCart(cart, product_id)
       IN IF cart_item_index = 0 THEN
             /\ outbox' = {Msg(u, "Error: Product not found in cart")}
             /\ oracle_log' = <<>>
             /\ UNCHANGED <<user_carts, seek_modal>>
          ELSE
             \E compliance_result \in OracleAnswers(u, cart[cart_item_index], oracle) :
                LET compliance_status == ExtractStatus(compliance_result)
                IN /\ user_carts' = [user_carts EXCEPT
                          ![u][cart_item_index].compliance_status =
                              CartStatus(compliance_status)]
                   /\ seek_modal' = [seek_modal EXCEPT ![u] =
                          IF ShowsSeekButton(compliance_status)
                          THEN {product_id} ELSE {}]
                   /\ oracle_log' = <<[user |-> u, index |-> cart_item_index,
                                        text |-> compliance_result]>>
                   /\ outbox' = {Msg(u, "Compliance Check")}
    /\ run_log' = <<>>
    /\ last_po' = NoPO
    /\ UNCHANGED <<user_preferences, welcome_sent, pending_queries, pipeline_vars, now, in_flight,
                   manager_inbox, shown, add_button, order_numbers, welcome_delivered>>

\* Variant of ButtonValue that numbers the requests, so that every message
\* carries its own decision (sensitivity of C6).
ButtonValue_PerMessage(user_id, product_id, decision) ==
    <<user_id, product_id, decision, Len(manager_inbox)>>

\* the value of a decision button, f"{user_id}|{product_id}|accepted" and
\* f"{user_id}|{product_id}|rejected", main.py:584 and 591
ButtonValue(user_id, product_id, decision) == <<user_id, product_id, decision>>

\* handle_seek_approval, main.py:529-607: the message names the requester and
\* the product and carries the two decision buttons
handle_seek_approval(u, product_id) ==
    /\ product_id \in seek_modal[u]
    /\ Len(manager_inbox) < MaxInbox
    /\ LET idx == FindInCart(user_carts[u], product_id)
       IN IF idx = 0 THEN
             /\ outbox' = {Msg(u, "Error: Product not found in cart")}
             /\ UNCHANGED manager_inbox
          ELSE
             /\ manager_inbox' = Append(manager_inbox,
                    [channel |-> manager_user_id,
                     requester |-> u,
                     product |-> user_carts[u][idx].product.title,
                     accept_value |-> ButtonValue(u, product_id, "accepted"),
                     reject_value |-> ButtonValue(u, product_id, "rejected")])
             /\ outbox' = {Msg(manager_user_id, "Approval Request"),
                           Msg(u, "Approval request sent to your manager")}
    /\ Quiet
    /\ UNCHANGED <<main_vars, pipeline_vars, now, in_flight, seek_modal, shown, add_button, order_numbers,
                   welcome_delivered>>

\* Variant of ApprovalDecision that resolves the item through the current
\* results, so that a decision arriving after the results were dropped finds
\* nothing (sensitivity of C23).
ApprovalDecision_ViaResults(value, new_status, notice) ==
    LET requester_id == value[1]
        product_id == value[2]
        current == \E k \in 1..Len(pipeline.last_results) :
                      /\ IsProductRow(pipeline.last_results[k])
                      /\ ProductId(pipeline.last_results[k]) = product_id
        idx == IF current THEN FindInCart(user_carts[requester_id], product_id) ELSE 0
    IN /\ IF idx = 0 THEN
             /\ outbox' = {Msg(requester_id, "Error: Product not found in cart")}
             /\ UNCHANGED user_carts
          ELSE
             /\ user_carts' = [user_carts EXCEPT
                    ![requester_id][idx].compliance_status = new_status]
             /\ outbox' = {Msg(requester_id, notice)}
       /\ Quiet
       /\ UNCHANGED <<user_preferences, welcome_sent, pending_queries, pipeline_vars, now, in_flight,
                      manager_inbox, seek_modal, shown, add_button, order_numbers, welcome_delivered>>

\* the body shared by handle_approval_accept (main.py:609-659) and
\* handle_approval_reject (main.py:661-711): value is the clicked button's value
ApprovalDecision(value, new_status, notice) ==
    LET requester_id == value[1]
        product_id == value[2]
        idx == FindInCart(user_carts[requester_id], product_id)
    IN /\ IF idx = 0 THEN
             /\ outbox' = {Msg(requester_id, "Error: Product not found in cart")}
             /\ UNCHANGED user_carts
          ELSE
             /\ user_carts' = [user_carts EXCEPT
                    ![requester_id][idx].compliance_status = new_status]
             /\ outbox' = {Msg(requester_id, notice)}
       /\ Quiet
       /\ UNCHANGED <<user_preferences, welcome_sent, pending_queries, pipeline_vars, now, in_flight,
                      manager_inbox, seek_modal, shown, add_button, order_numbers, welcome_delivered>>

handle_approval_accept(i) ==
    /\ i \in 1..Len(manager_inbox)
    /\ ApprovalDecision(manager_inbox[i].accept_value, "Approved",
                        "Your request was approved")

handle_approval_reject(i) ==
    /\ i \in 1..Len(manager_inbox)
    /\ ApprovalDecision(manager_inbox[i].reject_value, "Rejected",
                        "Your request was rejected")

\* the compliance checks of a handler that walks the cart: every outcome of
\* checking, in order, the items at the indices todo
RECURSIVE CheckOutcomes(_, _, _, _)
CheckOutcomes(u, cart, todo, oracle) ==
    IF todo = <<>> THEN {[cart |-> cart, log |-> <<>>]}
    ELSE LET idx == todo[Len(todo)]
         IN {[cart |-> [o.cart EXCEPT ![idx].compliance_status = CheckedStatus(a)],
              log |-> Append(o.log, [user |-> u, index |-> idx, text |-> a])] :
                o \in CheckOutcomes(u, cart, SubSeq(todo, 1, Len(todo) - 1), oracle),
                a \in OracleAnswers(u, cart[idx], oracle)}

\* the indices of cart, in order, whose item satisfies Test
Indices(cart, Test(_)) ==
    LET F[i \in 0..Len(cart)] ==
            IF i = 0 THEN <<>>
            ELSE IF Test(cart[i]) THEN Append(F[i - 1], i) ELSE F[i - 1]
    IN F[Len(cart)]

AnyItem(item) == TRUE
IsInCart(item) == item.compliance_status = "In cart"

\* handle_check_all_compliance, main.py:713-784
handle_check_all_compliance(u, oracle) ==
    /\ LET cart == user_carts[u]
       IN IF cart = <<>> THEN
             /\ outbox' = {Msg(u, "Your cart is empty. Nothing to check for compliance.")}
             /\ oracle_log' = <<>>
             /\ UNCHANGED user_carts
          ELSE
             \E o \in CheckOutcomes(u, cart, Indices(cart, AnyItem), oracle) :
                /\ user_carts' = [user_carts EXCEPT ![u] = o.cart]
                /\ oracle_log' = o.log
                /\ outbox' = {Msg(u, "Compliance check completed for all items.")}
    /\ run_log' = <<>>
    /\ last_po' = NoPO
    /\ UNCHANGED <<user_preferences, welcome_sent, pending_queries, pipeline_vars, now, in_flight,
                   manager_inbox, seek_modal, shown, add_button, order_numbers, welcome_delivered>>

\* the tail of handle_proceed_to_po, main.py:823-888: po is what
\* generate_purchase_order returned
PlaceOrder(u, upload_ok, po) ==
    /\ last_po' = po
    /\ IF po = NoPO THEN
          /\ outbox' = {Msg(u, "No eligible items for purchase order creation.")}
          /\ UNCHANGED order_numbers
       ELSE
          /\ order_numbers' = order_numbers \cup {po.order_number}
          /\ outbox' = {Msg(u, IF upload_ok
                                  THEN "Here is your generated Purchase Order"
                                  ELSE "Error: Could not generate purchase order.")}

\* handle_proceed_to_po, main.py:786-888; upload_ok is the outcome of the
\* three-step file upload, oracle the replies the compliance oracle can give
handle_proceed_to_po(u, upload_ok, oracle) ==
    /\ IF user_carts[u] = <<>> THEN
          /\ outbox' = {Msg(u, "Your cart is empty. Nothing to proceed with.")}
          /\ oracle_log' = <<>>
          /\ last_po' = NoPO
          /\ UNCHANGED <<user_carts, order_numbers>>
       ELSE
          \E o \in CheckOutcomes(u, user_carts[u], Indices(user_carts[u], IsInCart), oracle) :
             /\ user_carts' = [user_carts EXCEPT ![u] = o.cart]
             /\ oracle_log' = o.log
             /\ PlaceOrder(u, upload_ok, generate_purchase_order(o.cart, now))
    /\ run_log' = <<>>
    /\ UNCHANGED <<user_preferences, welcome_sent, pending_queries, pipeline_vars, now, in_flight,
                   manager_inbox, seek_modal, shown, add_button, welcome_delivered>>

(***************************************************************************)
(* Session handlers, main.py:1097-1434.                                    *)
(***************************************************************************)
\* what the handlers do with Pipeline.run's response (main.py:1152-1187,
\* 1301-1336, 1375-1410): a string is posted; a list goes through
\* build_product_blocks (main.py:139-194), which raises KeyError on a row
\* without 'price', and the handler then posts its error message
Deliver(u, response) ==
    IF response.kind = "str"
    THEN [ok |-> TRUE, msgs |-> {Msg(u, response.text)}, cards |-> {}]
    ELSE IF \A i \in 1..Len(response.results) : IsProductRow(response.results[i])
    THEN [ok |-> TRUE, msgs |-> {Msg(u, "Found products matching your query")},
          cards |-> {ProductId(response.results[i]) : i \in 1..Len(response.results)}]
    ELSE [ok |-> FALSE, msgs |-> {Msg(u, "Error: Could not process your query")},
          cards |-> {}]

\* the cards posted by build_product_blocks, main.py:165-186: the Add to Cart
\* button of a new card carries f"{product_id}|1"; qty_modal tells whether the
\* custom-quantity modal of the card is open
NewCards(buttons, cards) ==
    [pid \in DOMAIN buttons \cup cards |->
        IF pid \in cards THEN [value |-> <<"1">>, qty_modal |-> FALSE] ELSE buttons[pid]]

SetWorld(w) ==
    /\ pipeline' = w.pl
    /\ files' = w.files
    /\ logs' = w.logs
    /\ bucket' = w.bucket

\* the handler stores what pipeline.run left behind and posts the response:
\* r is pipeline.run's return, d its delivery, before the messages posted first
PostResponse(u, r, d, before) ==
    /\ Len(r.w.pl.csv_chain) <= MaxChain
    /\ SetWorld(r.w)
    /\ shown' = [shown EXCEPT ![u] = @ \cup d.cards]
    /\ add_button' = [add_button EXCEPT ![u] = NewCards(@, d.cards)]
    /\ outbox' = before \cup d.msgs

\* pipeline.run(query) called by a handler for user u (main.py:1296, 1370),
\* and the delivery of its response
RunAndDeliver(u, query, r, before) ==
    /\ PostResponse(u, r, Deliver(u, r.response), before)
    /\ run_log' = <<[user |-> u, query |-> query,
                     preferences |-> pipeline.user_preferences,
                     calls |-> r.w.calls]>>

\* the welcome message with the Set Preferences button, sent once per user
Welcome(u) ==
    IF u \notin welcome_sent THEN {Msg(u, "Welcome: Set Preferences")} ELSE {}

\* Variant of HandleUtterance without the preferences gate: the utterance is
\* run whether or not the user has preferences (sensitivity of C10).
HandleUtterance_Ungated(u, query, e) ==
    /\ welcome_sent' = welcome_sent \cup {u}
    /\ welcome_delivered' = IF u \notin welcome_sent
                            THEN welcome_delivered \cup {u} ELSE welcome_delivered
    /\ RunAndDeliver(u, query, PipelineRun(World, now, e, query), Welcome(u))
    /\ oracle_log' = <<>>
    /\ last_po' = NoPO
    /\ UNCHANGED <<user_preferences, pending_queries, user_carts, now, in_flight, manager_inbox,
                   seek_modal, order_numbers>>

\* the body shared by handle_mention (main.py:1223-1327) and handle_message
\* (main.py:1329-1434)
HandleUtterance(u, query, e) ==
    /\ welcome_sent' = welcome_sent \cup {u}
    /\ welcome_delivered' = IF u \notin welcome_sent
                            THEN welcome_delivered \cup {u} ELSE welcome_delivered
    /\ IF u \in DOMAIN user_preferences THEN
          /\ RunAndDeliver(u, query, PipelineRun(World, now, e, query), Welcome(u))
          /\ UNCHANGED pending_queries
       ELSE
          /\ pending_queries' = Put(pending_queries, u, query)
          /\ outbox' = Welcome(u) \cup {Msg(u, "Please set your preferences")}
          /\ run_log' = <<>>
          /\ UNCHANGED <<pipeline_vars, shown, add_button>>
    /\ oracle_log' = <<>>
    /\ last_po' = NoPO
    /\ UNCHANGED <<user_preferences, user_carts, now, in_flight, manager_inbox, seek_modal,
                   order_numbers>>

handle_mention(u, query, e) == HandleUtterance(u, query, e)

handle_message(u, query, e) == HandleUtterance(u, query, e)

\* update_home_tab, main.py:1097-1125
update_home_tab(u) ==
    /\ welcome_sent' = welcome_sent \cup {u}
    /\ outbox' = {}
    /\ Quiet
    /\ UNCHANGED <<user_preferences, pending_queries, user_carts, pipeline_vars, now, in_flight,
                   manager_inbox, seek_modal, shown, add_button, order_numbers, welcome_delivered>>

\* handle_preferences_button, main.py:1215-1221: opens the modal
handle_preferences_button(u) ==
    /\ u \in welcome_delivered
    /\ outbox' = {}
    /\ Quiet
    /\ UNCHANGED <<main_vars, pipeline_vars, now, in_flight, manager_inbox, seek_modal, shown, add_button,
                   order_numbers, welcome_delivered>>

\* the replay of the buffered query, main.py:1147-1199: the pending entry is
\* deleted after the response is delivered
ReplayPending(u, query, r, d, before) ==
    /\ PostResponse(u, r, d, before)
    /\ pending_queries' = IF d.ok THEN Del(pending_queries, u) ELSE pending_queries
    /\ run_log' = <<[user |-> u, query |-> query,
                     preferences |-> r.w.pl.user_preferences,
                     calls |-> r.w.calls]>>

\* handle_preferences_submission, main.py:1127-1213; the modal is opened from
\* the Set Preferences button of the welcome message
handle_preferences_submission(u, preferences, role, e) ==
    /\ u \in welcome_delivered
    /\ user_preferences' = Put(user_preferences, u,
                               [preferences |-> preferences, role |-> role])
    /\ IF u \in DOMAIN pending_queries THEN
          /\ \E r \in {PipelineRun([World EXCEPT !.pl = set_preferences(@, preferences)],
                                   now, e, pending_queries[u])} :
                ReplayPending(u, pending_queries[u], r, Deliver(u, r.response),
                              {Msg(u, "Preferences selected")})
       ELSE
          /\ pipeline' = set_preferences(pipeline, preferences)
          /\ run_log' = <<>>
          /\ outbox' = {Msg(u, "Preferences selected")}
          /\ UNCHANGED <<files, logs, bucket, shown, add_button, pending_queries>>
    /\ oracle_log' = <<>>
    /\ last_po' = NoPO
    /\ UNCHANGED <<welcome_sent, user_carts, now, in_flight, manager_inbox, seek_modal, order_numbers,
                   welcome_delivered>>

(***************************************************************************)
(* The quantity of a card, main.py:942-1054.  The Add to Cart button holds *)
(* f"{product_id}|{quantity}"; the model keeps the text after the bar.     *)
(***************************************************************************)
DigitChar(d) ==
    CASE d = 0 -> "0" [] d = 1 -> "1" [] d = 2 -> "2" [] d = 3 -> "3"
      [] d = 4 -> "4" [] d = 5 -> "5" [] d = 6 -> "6" [] d = 7 -> "7"
      [] d = 8 -> "8" [] d = 9 -> "9"

\* str(n) of an integer, as the f-strings of main.py:183, 981 and 1025 format it
RECURSIVE IntStr(_)
IntStr(n) ==
    IF n < 0 THEN <<"-">> \o IntStr(0 - n)
    ELSE IF n < 10 THEN <<DigitChar(n)>>
    ELSE Append(IntStr(n \div 10), DigitChar(n % 10))

\* the digits of an integer literal: digits, single underscores between them
IntBodyOk(b) ==
    /\ b # <<>>
    /\ \A i \in 1..Len(b) : b[i] \in Digits \cup {"_"}
    /\ b[1] # "_" /\ b[Len(b)] # "_"
    /\ \A i \in 1..(Len(b) - 1) : ~(b[i] = "_" /\ b[i + 1] = "_")

IsDigit(c) == c \in Digits

\* int(text), main.py:998 and 1062: surrounding whitespace and one sign are
\* accepted; ok is FALSE where int raises ValueError
ParseInt(text) ==
    LET t == Strip(text)
        signed == t # <<>> /\ t[1] \in {"+", "-"}
        body == IF signed THEN Tail(t) ELSE t
        magnitude == DecimalValue(SelectSeq(body, IsDigit))
    IN IF ~IntBodyOk(body) THEN [ok |-> FALSE, value |-> 0]
       ELSE [ok |-> TRUE,
             value |-> IF signed /\ t[1] = "-" THEN 0 - magnitude ELSE magnitude]

\* Variant of QuantityOk that accepts every integer (sensitivity of C22).
QuantityOk_Any(quantity) == TRUE

\* `if quantity <= 0: raise ValueError`, main.py:999-1000
QuantityOk(quantity) == ~(quantity <= 0)

\* the option "custom" of the quantity select, main.py:175
Custom == <<"c", "u", "s", "t", "o", "m">>

\* the lookup of a product id in pipeline.last_results, main.py:957-960,
\* 1003-1007: "crash" where p["title"] raises KeyError on a row without a
\* title before the product is reached, "missing" or "found"
LookupProduct(product_id) ==
    LET results == pipeline.last_results
        hits == {i \in 1..Len(results) :
                    IsProductRow(results[i]) /\ ProductId(results[i]) = product_id}
    IN IF \E i \in 1..Len(results) :
             ~IsProductRow(results[i]) /\ \A j \in hits : i < j
       THEN "crash"
       ELSE IF hits = {} THEN "missing" ELSE "found"

QtyFrame ==
    /\ Quiet
    /\ UNCHANGED <<main_vars, pipeline_vars, now, in_flight, manager_inbox,
                   seek_modal, shown, order_numbers, welcome_delivered>>

\* handle_quantity_selection, main.py:942-989, with open_custom_qty_modal
\* (362-398); slack_ok is the answer of views_open or chat_update
handle_quantity_selection(u, product_id, selected_qty, slack_ok) ==
    /\ product_id \in DOMAIN add_button[u]
    /\ LET found == LookupProduct(product_id)
       IN IF found = "crash" THEN
             \* no try/except: the handler aborts
             /\ outbox' = {}
             /\ UNCHANGED add_button
          ELSE IF found = "missing" THEN
             /\ outbox' = {Msg(u, "Error: Product not found")}
             /\ UNCHANGED add_button
          ELSE IF selected_qty = Custom THEN
             IF slack_ok THEN
                /\ add_button' = [add_button EXCEPT ![u][product_id].qty_modal = TRUE]
                /\ outbox' = {}
             ELSE
                /\ outbox' = {Msg(u, "Error: Could not open custom quantity modal")}
                /\ UNCHANGED add_button
          ELSE
             /\ add_button' = IF slack_ok
                              THEN [add_button EXCEPT ![u][product_id].value = selected_qty]
                              ELSE add_button
             /\ outbox' = {}
    /\ QtyFrame

\* handle_custom_qty_submission, main.py:991-1054; submitting closes the modal
handle_custom_qty_submission(u, product_id, custom_qty, slack_ok) ==
    /\ product_id \in DOMAIN add_button[u]
    /\ add_button[u][product_id].qty_modal
    /\ LET quantity == ParseInt(custom_qty)
           found == LookupProduct(product_id)
           closed == [add_button EXCEPT ![u][product_id].qty_modal = FALSE]
       IN IF ~quantity.ok \/ ~QuantityOk(quantity.value) THEN
             /\ outbox' = {Msg(u, "Error: Please enter a valid positive number for quantity")}
             /\ add_button' = closed
          ELSE IF found = "missing" THEN
             /\ outbox' = {Msg(u, "Error: Product not found")}
             /\ add_button' = closed
          ELSE IF found = "crash" \/ ~slack_ok THEN
             /\ outbox' = {Msg(u, "Error: Could not update quantity")}
             /\ add_button' = closed
          ELSE
             /\ add_button' = [closed EXCEPT ![u][product_id].value = IntStr(quantity.value)]
             /\ outbox' = {}
    /\ QtyFrame

\* a click on the Add to Cart button of a card: handle_add_to_cart with the
\* value the button holds, `quantity = int(quantity)`, main.py:1060-1062
add_to_cart_click(u, product_id) ==
    /\ product_id \in DOMAIN add_button[u]
    /\ LET quantity == ParseInt(add_button[u][product_id].value)
       IN IF quantity.ok THEN handle_add_to_cart(u, product_id, quantity.value)
          ELSE /\ outbox' = {}
               /\ Quiet
               /\ UNCHANGED <<main_vars, pipeline_vars, now, in_flight, manager_inbox,
                              seek_modal, shown, add_button, order_numbers,
                              welcome_delivered>>

\* Variant of ClearSession that leaves the active artifact in place
\* (sensitivity of C24).
ClearSession_KeepsActive(pl) ==
    [pl EXCEPT !.original_csv_file = NoFile,
               !.last_results = <<>>,
               !.current_product_name = NoName,
               !.csv_chain = <<>>]

\* Pipeline.clear_session, pipeline.py:1595-1603, on the Pipeline object
ClearSession(pl) ==
    [pl EXCEPT !.previous_csv_file = NoFile,
               !.original_csv_file = NoFile,
               !.last_results = <<>>,
               !.current_product_name = NoName,
               !.csv_chain = <<>>]

\* the operator's console
Console == "console"

\* the session is cleared; the method prints its notice
clear_session ==
    /\ pipeline' = ClearSession(pipeline)
    /\ outbox' = {Msg(Console, "Session cleared. Ready for a new query.")}
    /\ Quiet
    /\ UNCHANGED <<main_vars, files, logs, bucket, now, in_flight, manager_inbox,
                   seek_modal, shown, add_button, order_numbers, welcome_delivered>>

\* the clock advances
Tick ==
    /\ now < MaxTime
    /\ now' = now + 1
    /\ outbox' = {}
    /\ Quiet
    /\ UNCHANGED <<main_vars, pipeline_vars, in_flight, manager_inbox, seek_modal, shown, add_button,
                   order_numbers, welcome_delivered>>

(***************************************************************************)
(* Handlers on worker threads.  slack_bolt runs every listener on a thread *)
(* of the App's executor (the App is built with its defaults, main.py:34,  *)
(* and served in Socket Mode, main.py:1436-1439), and no handler takes a   *)
(* lock: a handler that waits for a collaborator can be overtaken by       *)
(* another event.  Two handlers are split at such a wait; in_flight holds  *)
(* the local variables of the handlers that are waiting.                   *)
(***************************************************************************)
RemoveAt(s, i) == SubSeq(s, 1, i - 1) \o SubSeq(s, i + 1, Len(s))

\* handle_check_compliance up to the call of the compliance oracle,
\* main.py:400-439: the item is looked up and its index kept
check_compliance_lookup(u, product_id) ==
    /\ product_id \in shown[u]
    /\ Len(in_flight) < MaxThreads
    /\ LET cart_item_index == FindInCart(user_carts[u], product_id)
       IN IF cart_item_index = 0 THEN
             /\ outbox' = {Msg(u, "Error: Product not found in cart")}
             /\ UNCHANGED in_flight
          ELSE
             /\ in_flight' = Append(in_flight,
                    [op |-> "check", user |-> u, product_id |-> product_id,
                     cart_item_index |-> cart_item_index,
                     product |-> user_carts[u][cart_item_index].product,
                     user_role |-> RoleOf(u)])
             /\ outbox' = {}
    /\ Quiet
    /\ UNCHANGED <<main_vars, pipeline_vars, now, manager_inbox, seek_modal, shown, add_button,
                   order_numbers, welcome_delivered>>

\* handle_check_compliance from the oracle's answer on, main.py:440-527: the
\* status is written to user_carts[user_id][cart_item_index]; an index past the
\* end of the cart raises IndexError and the handler posts its error message
check_compliance_write(i, oracle) ==
    /\ i \in 1..Len(in_flight)
    /\ in_flight[i].op = "check"
    /\ LET th == in_flight[i]
       IN \E reply \in oracle :
             /\ oracle_log' = <<[user |-> th.user, index |-> th.cart_item_index,
                                  text |-> check_compliance(th.user_role,
                                               parse_price(th.product.price),
                                               th.product.source, reply)]>>
             /\ IF th.cart_item_index <= Len(user_carts[th.user]) THEN
                   /\ user_carts' = [user_carts EXCEPT
                          ![th.user][th.cart_item_index].compliance_status =
                              CheckedStatus(oracle_log'[1].text)]
                   /\ seek_modal' = [seek_modal EXCEPT ![th.user] =
                          IF ShowsSeekButton(ExtractStatus(oracle_log'[1].text))
                          THEN {th.product_id} ELSE {}]
                   /\ outbox' = {Msg(th.user, "Compliance Check")}
                ELSE
                   /\ outbox' = {Msg(th.user, "Error: Could not check compliance")}
                   /\ UNCHANGED <<user_carts, seek_modal>>
    /\ in_flight' = RemoveAt(in_flight, i)
    /\ run_log' = <<>>
    /\ last_po' = NoPO
    /\ UNCHANGED <<user_preferences, welcome_sent, pending_queries, pipeline_vars, now,
                   manager_inbox, shown, add_button, order_numbers, welcome_delivered>>

\* the steps of a New plan start after the cache lookup missed,
\* pipeline.py:1508-1510
NewQueryStart(w, e, original_query) ==
    [w |-> CacheMiss(Called(w, "new"), e, original_query),
     csv_file |-> NoFile, results |-> <<>>, reasoned_csv_file |-> NoFile,
     returned |-> FALSE, response |-> StrResponse("")]

\* a New run is planned and not served from the cache: the user has
\* preferences, the planner answered a New plan whose first step is the
\* scraper, and the cache lookup missed
StartsNewRun(u, query, e) ==
    /\ u \in DOMAIN user_preferences
    /\ e.planner_ok
    /\ e.plan.query_type = "new"
    /\ e.plan.has_steps
    /\ e.plan.steps # <<>>
    /\ e.plan.steps[1].agent = "scraper"
    /\ ~CacheHit(World, e, query)

\* the handler waits with the scraped file in hand: acc is the state of
\* _handle_new_query after the scraper step
SuspendRun(u, query, e, acc) ==
    /\ ~acc.returned
    /\ SetWorld(acc.w)
    /\ in_flight' = Append(in_flight,
           [op |-> "run", user |-> u, query |-> query, e |-> e,
            csv_file |-> acc.csv_file, calls |-> acc.w.calls])

\* handle_message for a New query up to the end of the scraper step,
\* main.py:1329-1370 and pipeline.py:1388-1526: the chain is rooted at the
\* scraped file, the filter step is still to come
new_query_begin(u, query, e) ==
    /\ Len(in_flight) < MaxThreads
    /\ StartsNewRun(u, query, e)
    /\ SuspendRun(u, query, e,
           NewQueryStep(NewQueryStart(World, e, query), now, e, e.plan.steps[1]))
    /\ welcome_sent' = welcome_sent \cup {u}
    /\ welcome_delivered' = IF u \notin welcome_sent
                            THEN welcome_delivered \cup {u} ELSE welcome_delivered
    /\ outbox' = Welcome(u)
    /\ Quiet
    /\ UNCHANGED <<user_preferences, pending_queries, user_carts, now, manager_inbox,
                   seek_modal, shown, add_button, order_numbers>>

\* the state of _handle_new_query when the waiting handler th goes on: its own
\* csv_file and the Pipeline object as it is now
ResumedRun(th) ==
    [w |-> [World EXCEPT !.calls = th.calls],
     csv_file |-> th.csv_file, results |-> <<>>, reasoned_csv_file |-> NoFile,
     returned |-> FALSE, response |-> StrResponse("")]

\* the rest of the handler, pipeline.py:1528-1567 and main.py:1371-1410: the
\* filter step, the log entry and the delivery of the response
new_query_end(i) ==
    /\ i \in 1..Len(in_flight)
    /\ in_flight[i].op = "run"
    /\ RunAndDeliver(in_flight[i].user, in_flight[i].query,
           NewQueryResponse(
               NewQuerySteps(ResumedRun(in_flight[i]), now, in_flight[i].e,
                             Tail(in_flight[i].e.plan.steps)),
               in_flight[i].query),
           {})
    /\ in_flight' = RemoveAt(in_flight, i)
    /\ oracle_log' = <<>>
    /\ last_po' = NoPO
    /\ UNCHANGED <<main_vars, now, manager_inbox, seek_modal, order_numbers,
                   welcome_delivered>>

(***************************************************************************)
(* Inputs of the events and answers of the collaborators.                  *)
(***************************************************************************)
Queries == {"find mouse", " Find Mouse"}

\* what a user submits in the preferences modal
JuniorForm == [preferences |-> <<"price_conscious">>, role |-> "Junior Staff"]
ManagerForm == [preferences |-> <<"quality_focused">>, role |-> "Manager"]

PreferenceForms == {JuniorForm, ManagerForm}

NewPlan == Plan("new", <<Step("scraper", "mouse", ""), Step("reasoner", "", "under 2000")>>)
\* a parsed plan that has steps and no "query_type"
UntaggedPlan == Plan("", <<Step("scraper", "mouse", ""), Step("reasoner", "", "under 2000")>>)

\* a New plan about another product
PadPlan == Plan("new", <<Step("scraper", "pad", ""), Step("reasoner", "", "under 2000")>>)
FollowUpPlan == Plan("follow_up", <<Step("reasoner", "", "cheapest")>>)
JustificationPlan == Plan("justification", <<Step("justifier", "", "")>>)

Env(planner_ok, plan, scrape, code, mask, save_ok, download_ok) ==
    [planner_ok |-> planner_ok, plan |-> plan, scrape |-> scrape, code |-> code,
     mask |-> mask, save_ok |-> save_ok, download_ok |-> download_ok]

\* the requester whose cart the workflow specifications follow
Requesters == {"U1"}

\* the collaborators answer as intended: a New plan, usable rows, a filter that
\* keeps them
EnvsCart ==
    {Env(TRUE, NewPlan, <<Mouse, Cable>>, "frame", {1, 2}, TRUE, TRUE)}

EnvsPO ==
    {Env(TRUE, NewPlan, <<Mouse, Pad, Cable>>, "frame", {1, 2, 3}, TRUE, TRUE)}

\* replies of the compliance oracle
Oracle ==
    {Raw_Compliant, Raw_NeedsApproval, Raw_NonCompliant, Raw_NoStatus,
     Raw_Tight, Raw_Pending, Raw_Think, OracleError}

\* the replies given to the handlers that check a whole cart
OracleBatch == {Raw_Compliant, Raw_NeedsApproval, OracleError}

OraclePO == {Raw_Compliant, Raw_NonCompliant}

\* answers of the collaborators in the session specification
EnvsSession ==
    {Env(TRUE, NewPlan, <<Mouse, Cable>>, "frame", {1}, TRUE, TRUE),
     Env(TRUE, FollowUpPlan, <<Mouse>>, "frame", {1}, TRUE, FALSE),
     Env(TRUE, JustificationPlan, <<>>, "frame", {}, TRUE, TRUE),
     Env(TRUE, NewPlan, <<Mouse>>, "scalar", {}, TRUE, TRUE),
     Env(FALSE, MalformedPlan, <<>>, "error", {}, FALSE, FALSE)}

(***************************************************************************)
(* Spec: the compliance and approval workflow of one requester's cart,     *)
(* with the two handlers a user needs to obtain product cards.             *)
(***************************************************************************)
Next ==
    \/ \E u \in Requesters, e \in EnvsCart : handle_message(u, "find mouse", e)
    \/ \E u \in Requesters, e \in EnvsCart :
          handle_preferences_submission(u, JuniorForm.preferences, JuniorForm.role, e)
    \/ \E u \in Requesters, pid \in ProductIds : handle_add_to_cart(u, pid, 3)
    \/ \E u \in Requesters, pid \in ProductIds : handle_remove_from_cart(u, pid)
    \/ \E u \in Requesters, pid \in ProductIds : handle_check_compliance(u, pid, Oracle)
    \/ \E u \in Requesters : handle_check_all_compliance(u, OracleBatch)
    \/ \E u \in Requesters, pid \in ProductIds : handle_seek_approval(u, pid)
    \/ \E i \in 1..MaxInbox : handle_approval_accept(i)
    \/ \E i \in 1..MaxInbox : handle_approval_reject(i)
    \/ \E u \in Requesters, ok \in BOOLEAN : handle_proceed_to_po(u, ok, OracleBatch)

Spec == Init /\ [][Next]_vars

(***************************************************************************)
(* SpecPO: purchase-order creation from the carts of two users, with the   *)
(* clock.                                                                  *)
(***************************************************************************)
NextPO ==
    \/ \E u \in Users, e \in EnvsPO : handle_message(u, "find mouse", e)
    \/ \E u \in Users, e \in EnvsPO :
          handle_preferences_submission(u, JuniorForm.preferences, JuniorForm.role, e)
    \/ \E u \in Users, pid \in ProductIds, q \in Quantities :
          handle_add_to_cart(u, pid, q)
    \/ \E u \in Users, pid \in ProductIds : handle_check_compliance(u, pid, OraclePO)
    \/ \E u \in Users, ok \in BOOLEAN : handle_proceed_to_po(u, ok, OraclePO)
    \/ Tick

SpecPO == Init /\ [][NextPO]_vars

(***************************************************************************)
(* SpecSession: utterances, the welcome message and the preferences of two *)
(* users, with every answer of the pipeline's collaborators.               *)
(***************************************************************************)
NextSession ==
    \/ \E u \in Users, q \in Queries, e \in EnvsSession : handle_message(u, q, e)
    \/ \E u \in Users, q \in Queries, e \in EnvsSession : handle_mention(u, q, e)
    \/ \E u \in Users : update_home_tab(u)
    \/ \E u \in Users : handle_preferences_button(u)
    \/ \E u \in Users, f \in PreferenceForms, e \in EnvsSession :
          handle_preferences_submission(u, f.preferences, f.role, e)
    \/ Tick

SpecSession == Init /\ [][NextSession]_vars

(***************************************************************************)
(* SpecChain: the artifact chain and the query cache in the session of one *)
(* user, with plans of every type and filters that keep rows, keep none,   *)
(* evaluate to a number, fail, or cannot be saved.                         *)
(***************************************************************************)
EnvsChain ==
    {Env(TRUE, NewPlan, <<Mouse, Cable>>, "frame", {1, 2}, TRUE, TRUE),
     Env(TRUE, NewPlan, <<Mouse, Cable>>, "frame", {}, TRUE, TRUE),
     Env(TRUE, NewPlan, <<Mouse>>, "error", {}, TRUE, FALSE),
     Env(TRUE, NewPlan, <<>>, "frame", {}, TRUE, FALSE),
     Env(TRUE, FollowUpPlan, <<>>, "frame", {1}, TRUE, TRUE),
     Env(TRUE, FollowUpPlan, <<>>, "frame", {1}, FALSE, TRUE),
     Env(TRUE, FollowUpPlan, <<>>, "scalar", {}, TRUE, TRUE)}

NextChain ==
    \/ \E u \in Requesters, q \in Queries, e \in EnvsChain : handle_message(u, q, e)
    \/ \E u \in Requesters, e \in EnvsChain :
          handle_preferences_submission(u, JuniorForm.preferences, JuniorForm.role, e)
    \/ clear_session
    \/ Tick

SpecChain == Init /\ [][NextChain]_vars

(***************************************************************************)
(* SpecRace: the utterances of one user handled on worker threads: a New   *)
(* query can be overtaken by the user's next utterance.                    *)
(***************************************************************************)
EnvsRace ==
    {Env(TRUE, NewPlan, <<Mouse, Cable>>, "frame", {1, 2}, TRUE, TRUE),
     Env(TRUE, FollowUpPlan, <<>>, "frame", {1}, TRUE, TRUE)}

NextRace ==
    \/ \E u \in Requesters, e \in EnvsRace : handle_message(u, "find mouse", e)
    \/ \E u \in Requesters, e \in EnvsRace :
          handle_preferences_submission(u, JuniorForm.preferences, JuniorForm.role, e)
    \/ \E u \in Requesters, e \in EnvsRace : new_query_begin(u, "find mouse", e)
    \/ \E i \in 1..MaxThreads : new_query_end(i)
    \/ Tick

SpecRace == Init /\ [][NextRace]_vars

(***************************************************************************)
(* SpecCartRace: the cart events of one user handled on worker threads: a  *)
(* compliance check can be overtaken by the user's next click.             *)
(***************************************************************************)
NextCartRace ==
    \/ \E u \in Requesters, e \in EnvsCart : handle_message(u, "find mouse", e)
    \/ \E u \in Requesters, e \in EnvsCart :
          handle_preferences_submission(u, JuniorForm.preferences, JuniorForm.role, e)
    \/ \E u \in Requesters, pid \in ProductIds : handle_add_to_cart(u, pid, 3)
    \/ \E u \in Requesters, pid \in ProductIds : handle_remove_from_cart(u, pid)
    \/ \E u \in Requesters, pid \in ProductIds : check_compliance_lookup(u, pid)
    \/ \E i \in 1..MaxThreads : check_compliance_write(i, OraclePO)

SpecCartRace == Init /\ [][NextCartRace]_vars

(***************************************************************************)
(* SpecStale: the cart and approval events of one requester while the      *)
(* session's results change under them: New queries, cache hits, follow-   *)
(* ups that narrow the results or evaluate to a number, failed searches    *)
(* and clear_session.                                                      *)
(***************************************************************************)
EnvsStale ==
    {Env(TRUE, NewPlan, <<Mouse, Cable>>, "frame", {1, 2}, TRUE, TRUE),
     Env(TRUE, NewPlan, <<>>, "frame", {}, TRUE, FALSE),
     Env(TRUE, FollowUpPlan, <<>>, "frame", {1}, TRUE, TRUE),
     Env(TRUE, FollowUpPlan, <<>>, "scalar", {}, TRUE, TRUE),
     Env(TRUE, JustificationPlan, <<>>, "frame", {}, TRUE, TRUE)}

NextStale ==
    \/ \E u \in Requesters, e \in EnvsStale : handle_message(u, "find mouse", e)
    \/ \E u \in Requesters, e \in EnvsStale :
          handle_preferences_submission(u, JuniorForm.preferences, JuniorForm.role, e)
    \/ clear_session
    \/ \E u \in Requesters, pid \in ProductIds : handle_add_to_cart(u, pid, 3)
    \/ \E u \in Requesters, pid \in ProductIds : handle_remove_from_cart(u, pid)
    \/ \E u \in Requesters, pid \in ProductIds : handle_check_compliance(u, pid, OraclePO)
    \/ \E u \in Requesters, pid \in ProductIds : handle_seek_approval(u, pid)
    \/ \E i \in 1..MaxInbox : handle_approval_accept(i)
    \/ \E i \in 1..MaxInbox : handle_approval_reject(i)

SpecStale == Init /\ [][NextStale]_vars

(***************************************************************************)
(* SpecQty: one requester chooses quantities on the cards, by the select   *)
(* and by the custom-quantity modal, and adds to the cart what the button  *)
(* holds.                                                                  *)
(***************************************************************************)
EnvsQty ==
    {Env(TRUE, NewPlan, <<Mouse>>, "frame", {1}, TRUE, TRUE),
     Env(TRUE, FollowUpPlan, <<>>, "scalar", {}, TRUE, TRUE)}

SelectedQuantities == {IntStr(2), Custom}

CustomQuantities ==
    {<<"5">>, <<" ", "3", " ">>, <<"0">>, <<"-", "2">>, <<"a", "b">>, <<"2", ".", "5">>}

NextQty ==
    \/ \E u \in Requesters, e \in EnvsQty : handle_message(u, "find mouse", e)
    \/ \E u \in Requesters, e \in EnvsQty :
          handle_preferences_submission(u, JuniorForm.preferences, JuniorForm.role, e)
    \/ \E u \in Requesters, pid \in ProductIds, s \in SelectedQuantities, ok \in BOOLEAN :
          handle_quantity_selection(u, pid, s, ok)
    \/ \E u \in Requesters, pid \in ProductIds, s \in CustomQuantities, ok \in BOOLEAN :
          handle_custom_qty_submission(u, pid, s, ok)
    \/ \E u \in Requesters, pid \in ProductIds : add_to_cart_click(u, pid)
    \/ \E u \in Requesters, pid \in ProductIds : handle_remove_from_cart(u, pid)

SpecQty == Init /\ [][NextQty]_vars

(***************************************************************************)
(* SpecTail: follow-ups on a chain whose root is searched again: the       *)
(* search answers with other rows, the filter of a New query can fail, and *)
(* a follow-up keeps the first or the second row.                          *)
(***************************************************************************)
EnvsTail ==
    {Env(TRUE, NewPlan, <<Mouse, Cable>>, "frame", {1, 2}, TRUE, TRUE),
     Env(TRUE, NewPlan, <<Mouse, Cable>>, "error", {}, TRUE, TRUE),
     Env(TRUE, NewPlan, <<Mouse>>, "error", {}, TRUE, TRUE),
     Env(TRUE, PadPlan, <<>>, "frame", {}, TRUE, TRUE),
     Env(TRUE, UntaggedPlan, <<Mouse>>, "frame", {1}, TRUE, TRUE),
     Env(TRUE, FollowUpPlan, <<>>, "frame", {1}, TRUE, TRUE),
     Env(TRUE, FollowUpPlan, <<>>, "frame", {2}, TRUE, TRUE)}

NextTail ==
    \/ \E u \in Requesters, e \in EnvsTail : handle_message(u, "find mouse", e)
    \/ \E u \in Requesters, e \in EnvsTail :
          handle_preferences_submission(u, JuniorForm.preferences, JuniorForm.role, e)
    \/ Tick

SpecTail == Init /\ [][NextTail]_vars

(***************************************************************************)
(* Claims.                                                                 *)
(***************************************************************************)
\* the three verdicts of the compliance policy and the cart status each stands for
Verdicts ==
    {[phrase |-> <<"Compliant">>, status |-> "Recommended"],
     [phrase |-> <<"Needs", " ", "Approval">>, status |-> "Awaiting Approval"],
     [phrase |-> <<"Non", "-", "Compliant">>, status |-> "Non Compliant"]}

\* the narrative has a status line that states this verdict: the label, markup,
\* then exactly the words of the verdict
StatesVerdict(text, phrase) ==
    \E i \in 1..Len(text) :
       /\ text[i] = Label
       /\ \E j \in (i + 2)..Len(text) :
             /\ \A k \in (i + 1)..(j - 1) : text[k] \in Markup
             /\ text[j] \notin Markup
             /\ j + Len(phrase) - 1 <= Len(text)
             /\ SubSeq(text, j, j + Len(phrase) - 1) = phrase
             /\ \/ j + Len(phrase) > Len(text)
                \/ text[j + Len(phrase)] \in {" ", "\n", "*", "."}

\* the cart item a logged oracle answer was asked for, as the cart holds it now
CheckedItem(entry) == user_carts[entry.user][entry.index]

PriceOf(item) == parse_price(item.product.price)

\* the messages with which handle_proceed_to_po ends
NothingToOrder ==
    {"Your cart is empty. Nothing to proceed with.",
     "No eligible items for purchase order creation."}

OrderPosted ==
    {"Here is your generated Purchase Order",
     "Error: Could not generate purchase order."}

\* C1: a cart item's status becomes Approved or Rejected only in a step whose
\* pre-state status of that item is Awaiting Approval.  Violated: the accept and
\* reject handlers write the decision whatever the item's status is.
C1_DecidedOnlyFromAwaiting ==
    [][\A u \in Users :
          Len(user_carts'[u]) = Len(user_carts[u]) =>
             \A i \in 1..Len(user_carts[u]) :
                (/\ user_carts'[u][i].compliance_status \in {"Approved", "Rejected"}
                 /\ user_carts'[u][i].compliance_status
                        # user_carts[u][i].compliance_status)
                => user_carts[u][i].compliance_status = "Awaiting Approval"]_vars

\* C2: a compliance check maps the verdict the oracle's narrative states to the
\* cart status: Compliant -> Recommended, Needs Approval -> Awaiting Approval,
\* Non-Compliant -> Non Compliant.  Violated: for "Needs Approval" the handler
\* captures only "Needs" and writes Non Compliant.
C2_VerdictMapping ==
    \A k \in 1..Len(oracle_log) : \A v \in Verdicts :
        StatesVerdict(oracle_log[k].text, v.phrase)
        => CheckedItem(oracle_log[k]).compliance_status = v.status

\* C3: fail closed.  An oracle answer that states none of the three verdicts
\* (no status line, an unknown token, the apology text) leaves the checked item
\* Non Compliant.
C3_FailClosed ==
    \A k \in 1..Len(oracle_log) :
        (\A v \in Verdicts : ~StatesVerdict(oracle_log[k].text, v.phrase))
        => CheckedItem(oracle_log[k]).compliance_status = "Non Compliant"

\* the apology text was received for an item, which is now Non Compliant
C3_Witness ==
    \E k \in 1..Len(oracle_log) :
        /\ oracle_log[k].text = Apology
        /\ CheckedItem(oracle_log[k]).compliance_status = "Non Compliant"

RECURSIVE CountLines(_)
CountLines(lines) ==
    IF lines = <<>> THEN 0
    ELSE Len(Head(lines).line_items) + CountLines(Tail(lines))

\* C4: every line of a purchase order comes from an item of the ordering user's
\* cart whose status is Recommended or Approved, and there are no more lines
\* than such items.
C4_LinesFromEligibleItems ==
    last_po # NoPO =>
       \A m \in outbox :
          /\ CountLines(last_po.lines)
                <= Cardinality({i \in 1..Len(user_carts[m.channel]) :
                       user_carts[m.channel][i].compliance_status
                           \in {"Recommended", "Approved"}})
          /\ \A g \in 1..Len(last_po.lines) :
             \A l \in 1..Len(last_po.lines[g].line_items) :
                \E i \in 1..Len(user_carts[m.channel]) :
                   LET item == user_carts[m.channel][i]
                       line == last_po.lines[g].line_items[l]
                   IN /\ item.compliance_status \in {"Recommended", "Approved"}
                      /\ item.product.title = line.description
                      /\ item.product.source = last_po.lines[g].vendor_source
                      /\ item.quantity = line.quantity

\* a purchase order with a line for an Approved item was built from a cart that
\* also holds an item that is not eligible
C4_Witness ==
    /\ last_po # NoPO
    /\ \E g \in 1..Len(last_po.lines) : last_po.lines[g].line_items # <<>>
    /\ \E m \in outbox :
          /\ \E i \in 1..Len(user_carts[m.channel]) :
                user_carts[m.channel][i].compliance_status = "Approved"
          /\ \E i \in 1..Len(user_carts[m.channel]) :
                user_carts[m.channel][i].compliance_status
                    \in {"Non Compliant", "Rejected"}

\* C5: the scenario's first link.  A cart that holds one product with quantity
\* 3, checked for a Junior Staff user at a price above that role's limit with a
\* narrative that asks for approval, has status Awaiting Approval.  Violated
\* through the mapping of C2.
C5_ScenarioReachesAwaiting ==
    \A u \in Users :
        (/\ Len(user_carts[u]) = 1
         /\ user_carts[u][1].quantity = 3
         /\ u \in DOMAIN user_preferences
         /\ user_preferences[u].role = "Junior Staff"
         /\ PriceOf(user_carts[u][1]) > 100 * LimitJuniorStaff
         /\ Len(oracle_log) = 1
         /\ oracle_log[1].user = u
         /\ StatesVerdict(oracle_log[1].text, <<"Needs", " ", "Approval">>))
        => user_carts[u][1].compliance_status = "Awaiting Approval"

ExpectedLines(cart, vendor) ==
    LET Counts(item) == /\ item.compliance_status \in {"Recommended", "Approved"}
                        /\ item.product.source = vendor
                        /\ PriceOf(item) # 0
        items == SelectSeq(cart, Counts)
    IN [i \in 1..Len(items) |->
           [quantity |-> items[i].quantity,
            description |-> items[i].product.title,
            amount_each |-> PriceOf(items[i]),
            total_amount |-> PriceOf(items[i]) * items[i].quantity]]

RECURSIVE SumOfLines(_)
SumOfLines(line_items) ==
    IF line_items = <<>> THEN 0
    ELSE Head(line_items).total_amount + SumOfLines(Tail(line_items))

RECURSIVE SumOfGroups(_)
SumOfGroups(lines) ==
    IF lines = <<>> THEN 0
    ELSE SumOfLines(Head(lines).line_items) + SumOfGroups(Tail(lines))

RECURSIVE SumOfItems(_)
SumOfItems(cart) ==
    IF cart = <<>> THEN 0
    ELSE (IF /\ Head(cart).compliance_status \in {"Recommended", "Approved"}
             /\ PriceOf(Head(cart)) # 0
          THEN PriceOf(Head(cart)) * Head(cart).quantity ELSE 0)
         + SumOfItems(Tail(cart))

\* C7: in a purchase order every eligible item with a non-zero price has exactly
\* one line, in the one group of its source, with total_amount = amount_each *
\* quantity, and the line amounts add up to the sum of price * quantity.
C7_LineTotals ==
    last_po # NoPO =>
       \A m \in outbox :
          LET cart == user_carts[m.channel]
          IN /\ \A g \in 1..Len(last_po.lines) :
                   last_po.lines[g].line_items
                       = ExpectedLines(cart, last_po.lines[g].vendor_source)
             /\ \A g, h \in 1..Len(last_po.lines) :
                   (/\ last_po.lines[g].line_items # <<>>
                    /\ last_po.lines[g].vendor_source = last_po.lines[h].vendor_source)
                   => g = h
             /\ \A i \in 1..Len(cart) :
                   ExpectedLines(cart, cart[i].product.source) # <<>>
                   => \E g \in 1..Len(last_po.lines) :
                         last_po.lines[g].vendor_source = cart[i].product.source
             /\ SumOfGroups(last_po.lines) = SumOfItems(cart)

\* a purchase order with lines in two vendor groups, one of them for quantity 3
C7_Witness ==
    /\ last_po # NoPO
    /\ \E g, h \in 1..Len(last_po.lines) :
          /\ g # h
          /\ last_po.lines[g].line_items # <<>>
          /\ last_po.lines[h].line_items # <<>>
          /\ last_po.lines[g].line_items[1].quantity = 3

\* C8: any two purchase orders carry different order numbers.  Violated: the
\* number is the clock's second, and two orders can be created within one.
C8_UniqueOrderNumbers ==
    [][last_po' # NoPO => last_po'.order_number \notin order_numbers]_vars

\* C9: when the cart handed to generate_purchase_order holds no Recommended or
\* Approved item (the empty cart included), no purchase order is built, none is
\* posted, and the user is told there is nothing to order.
C9_NothingToOrder ==
    [][\A u \in Users :
          (/\ \E m \in outbox' : m.channel = u /\ m.text \in NothingToOrder \cup OrderPosted
           /\ \A i \in 1..Len(user_carts'[u]) :
                 user_carts'[u][i].compliance_status \notin {"Recommended", "Approved"})
          => /\ last_po' = NoPO
             /\ order_numbers' = order_numbers
             /\ \A m \in outbox' : m.text \in NothingToOrder]_vars

\* proceed-to-PO ended with nothing to order on a cart that holds items
C9_Witness ==
    \E u \in Users :
        /\ user_carts[u] # <<>>
        /\ \A i \in 1..Len(user_carts[u]) :
              user_carts[u][i].compliance_status \notin {"Recommended", "Approved"}
        /\ outbox = {Msg(u, "No eligible items for purchase order creation.")}
        /\ last_po = NoPO

\* C10: Pipeline.run is never called for an utterance of a user whose
\* preferences are unset; the utterance is buffered as that user's pending
\* query.
C10_NoRunWithoutPreferences ==
    /\ \A k \in 1..Len(run_log) : run_log[k].user \in DOMAIN user_preferences
    /\ \A m \in outbox :
          m.text = "Please set your preferences"
          => /\ m.channel \in DOMAIN pending_queries
             /\ run_log = <<>>

\* an utterance of a user without preferences was buffered and not run
C10_Witness ==
    \E u \in Users :
        /\ u \notin DOMAIN user_preferences
        /\ u \in DOMAIN pending_queries
        /\ Msg(u, "Please set your preferences") \in outbox
        /\ run_log = <<>>

\* C11: when handle_preferences_submission has replayed a user's buffered
\* query, pending_queries no longer holds an entry for that user, whatever the
\* outcome of the replay.  Violated: the entry is deleted only after the
\* response was posted, so a replay whose delivery raises leaves it buffered.
C11_ReplayClearsBuffer ==
    [][\A u \in Users :
          (/\ u \in DOMAIN pending_queries
           /\ Msg(u, "Preferences selected") \in outbox')
          => u \notin DOMAIN pending_queries']_vars

\* C12: the preferences handed to the planner in a run made for a user are that
\* user's own preferences.  Violated: the handlers share one Pipeline object,
\* whose preferences are those of the last user who submitted the form.
C12_PlannerGetsOwnPreferences ==
    \A i \in 1..Len(run_log) :
       /\ run_log[i].user \in DOMAIN user_preferences
       /\ run_log[i].preferences = user_preferences[run_log[i].user].preferences

\* the run made by the last handler, if it made one
HasRun(log) == log # <<>>
PlannedAs(log, query_type) == HasRun(log) /\ log[1].calls # <<>> /\ log[1].calls[1] = query_type
Did(log, call) == HasRun(log) /\ \E k \in 1..Len(log[1].calls) : log[1].calls[k] = call
CountOf(log, call) == Cardinality({k \in 1..Len(log[1].calls) : log[1].calls[k] = call})

\* the rows of a file
RowSet(rows) == {rows[k] : k \in 1..Len(rows)}

\* C13: the chain is the root plus one artifact for every filtering step that
\* succeeded since the chain was rooted.  Stated as its consequence for one
\* handler: the chain never grows by more artifacts than the reasoner saved in
\* that handler's run, counted from the root when the run rooted the chain.
\* Violated: a New query whose filter fails chains the file an earlier query
\* generated.
C13_ChainCountsFilters ==
    [][IF ~HasRun(run_log')
       THEN Len(pipeline'.csv_chain) = Len(pipeline.csv_chain)
       ELSE Len(pipeline'.csv_chain)
               <= (IF Did(run_log', "rooted") \/ Did(run_log', "cache_hit")
                   THEN 1 ELSE Len(pipeline.csv_chain))
                  + CountOf(run_log', "reasoner_saved")]_vars

\* C14: every artifact of the chain other than the root holds a subset of the
\* rows of its predecessor in the chain.  Violated: a filter that evaluates to
\* a number is saved as a one-row file of other columns and chained.
C14_Narrowing ==
    \A i \in 2..Len(pipeline.csv_chain) :
       /\ pipeline.csv_chain[i] \in DOMAIN files
       /\ pipeline.csv_chain[i - 1] \in DOMAIN files
       /\ RowSet(files[pipeline.csv_chain[i]])
             \subseteq RowSet(files[pipeline.csv_chain[i - 1]])

C16_FollowUpWithoutChainSearches ==
    [][(/\ PlannedAs(run_log', "follow_up")
        /\ \/ pipeline.previous_csv_file = NoFile
           \/ pipeline.previous_csv_file \notin DOMAIN files)
       => (Did(run_log', "scraper") \/ Did(run_log', "cache_hit"))]_vars

\* C20: when handle_proceed_to_po ends with its error message (the upload of
\* the purchase order failed), every item of the user's cart has the compliance
\* status it had before the event.  Violated: the statuses written by the
\* automatic check of the In cart items stay.
C20_FailureKeepsStatuses ==
    [][\A u \in Users :
          Msg(u, "Error: Could not generate purchase order.") \in outbox'
          => user_carts'[u] = user_carts[u]]_vars

\* a run of the pipeline for user u starts in this step: a handler of u begins
\* to wait with a run under way, or a handler of u makes its whole run
RunStarts(u) ==
    \/ /\ Len(in_flight') = Len(in_flight) + 1
       /\ in_flight'[Len(in_flight')].op = "run"
       /\ in_flight'[Len(in_flight')].user = u
    \/ /\ in_flight' = in_flight
       /\ HasRun(run_log')
       /\ run_log'[1].user = u

\* C17: the processing of a user's utterance never starts while an earlier
\* utterance of the same user is still being processed.  Violated: nothing
\* orders the handlers of one user.
C17_ArrivalOrder ==
    [][\A u \in Users :
          RunStarts(u)
          => ~\E i \in 1..Len(in_flight) :
                 in_flight[i].op = "run" /\ in_flight[i].user = u]_vars

\* C18: the status computed by a compliance check of item X is written to X
\* and to no other item.  Violated: the check keeps the index of X and writes
\* to that index after the cart has changed.
C18_CheckWritesItsItem ==
    [][\A i \in 1..Len(in_flight) :
          (/\ in_flight[i].op = "check"
           /\ in_flight' = RemoveAt(in_flight, i))
          => LET u == in_flight[i].user
             IN /\ Len(user_carts'[u]) = Len(user_carts[u])
                /\ \A k \in 1..Len(user_carts[u]) :
                      user_carts'[u][k] # user_carts[u][k]
                      => user_carts[u][k].product = in_flight[i].product]_vars

\* C19: the first cache entry written for an origin query is never overwritten:
\* neither its log entry nor the artifact stored at the logged path changes.
\* Violated: two identical New queries under way both miss the cache and both
\* write the entry.
C19_FirstWriterWins ==
    [][\A h \in DOMAIN logs :
          /\ h \in DOMAIN logs'
          /\ logs'[h] = logs[h]
          /\ logs[h].firebase_path \in DOMAIN bucket
             => /\ logs[h].firebase_path \in DOMAIN bucket'
                /\ bucket'[logs[h].firebase_path] = bucket[logs[h].firebase_path]]_vars

\* the product id is not the id of a row of the current results
AbsentFromResults(product_id) ==
    \A i \in 1..Len(pipeline.last_results) :
       ~(/\ IsProductRow(pipeline.last_results[i])
         /\ ProductId(pipeline.last_results[i]) = product_id)

AbsentFromCart(u, product_id) == FindInCart(user_carts[u], product_id) = 0

\* an event that references a product id that is not present
StaleReference ==
    \/ \E u \in Users, pid \in ProductIds :
          AbsentFromResults(pid) /\ handle_add_to_cart(u, pid, 3)
    \/ \E u \in Users, pid \in ProductIds :
          /\ AbsentFromCart(u, pid)
          /\ \/ handle_remove_from_cart(u, pid)
             \/ handle_check_compliance(u, pid, OraclePO)
             \/ handle_seek_approval(u, pid)
    \/ \E i \in 1..Len(manager_inbox) :
          /\ AbsentFromCart(manager_inbox[i].accept_value[1],
                            manager_inbox[i].accept_value[2])
          /\ handle_approval_accept(i) \/ handle_approval_reject(i)

StaleMessages == {"Error: Product not found in cart", "Error: Product not found"}

\* C21: an event that references a product id that is not present (in the
\* requester's cart; for add-to-cart, in the current results) is reported and
\* changes no cart.  Violated: add-to-cart raises before it can report when the
\* current results hold a row without a title.
C21_StaleReferenceReported ==
    [][StaleReference
       => (/\ user_carts' = user_carts
           /\ manager_inbox' = manager_inbox
           /\ \E m \in outbox' : m.text \in StaleMessages)]_vars

\* the custom quantities that are not positive integers
InvalidQuantities == {<<"0">>, <<"-", "2">>, <<"a", "b">>, <<"2", ".", "5">>}

QuantitiesPositive(carts) ==
    \A u \in Users : \A i \in 1..Len(carts[u]) :
       carts[u][i].quantity \in Nat \ {0}

ButtonValues(buttons) ==
    [u \in Users |-> [pid \in DOMAIN buttons[u] |-> buttons[u][pid].value]]

\* C22: the quantity of every cart item is a positive integer; submitting a
\* custom quantity that is not a positive integer is answered with the
\* rejection and changes neither a cart nor the quantity a button holds.
C22_QuantitiesPositive ==
    [][/\ QuantitiesPositive(user_carts')
       /\ \A u \in Users, pid \in ProductIds, s \in InvalidQuantities, ok \in BOOLEAN :
             handle_custom_qty_submission(u, pid, s, ok)
             => /\ \E m \in outbox' :
                      m.text = "Error: Please enter a valid positive number for quantity"
                /\ user_carts' = user_carts
                /\ ButtonValues(add_button') = ButtonValues(add_button)]_vars

\* a custom quantity is rejected while the cart holds an item that was added
\* with a custom quantity
C22_Witness ==
    /\ \E m \in outbox :
          m.text = "Error: Please enter a valid positive number for quantity"
    /\ \E u \in Users : \E i \in 1..Len(user_carts[u]) : user_carts[u][i].quantity = 5

\* the decision on request i reaches the item the request names
DecisionReaches(i, decided, status) ==
    LET requester_id == manager_inbox[i].accept_value[1]
        idx == FindInCart(user_carts[requester_id], manager_inbox[i].accept_value[2])
    IN (idx # 0 /\ decided)
          => /\ Len(user_carts'[requester_id]) = Len(user_carts[requester_id])
             /\ user_carts'[requester_id][idx].compliance_status = status

\* C23: a run of the pipeline (New query, cache hit, follow-up, failed search)
\* and clear_session change no cart, and an accept or reject finds the item
\* by its product id in the requester's cart whatever the session holds.
C23_CartsSurviveResets ==
    [][/\ (HasRun(run_log') \/ clear_session) => user_carts' = user_carts
       /\ \A i \in 1..Len(manager_inbox) :
             /\ DecisionReaches(i, handle_approval_accept(i), "Approved")
             /\ DecisionReaches(i, handle_approval_reject(i), "Rejected")]_vars

\* a request is accepted after the session was cleared
C23_Witness ==
    /\ pipeline.csv_chain = <<>>
    /\ pipeline.last_results = <<>>
    /\ pipeline.last_generated_csv # NoFile
    /\ \E m \in outbox : m.text = "Your request was approved"
    /\ \E u \in Users : \E i \in 1..Len(user_carts[u]) :
          user_carts[u][i].compliance_status = "Approved"

SessionCleared == Msg(Console, "Session cleared. Ready for a new query.") \in outbox

\* the run looked the query up in the cache: it was handled as a New query
LookedUp(log) ==
    \/ Did(log, "not_cached") \/ Did(log, "download_unavailable")
    \/ Did(log, "blob_missing") \/ Did(log, "cache_hit")

\* C24: clear_session drops the chain, the active artifact and the last
\* results and keeps the preferences; a FollowUp that comes next finds no
\* chain and is handed to the New-query path.
C24_ClearDropsSession ==
    [][/\ clear_session
          => /\ pipeline'.csv_chain = <<>>
             /\ pipeline'.previous_csv_file = NoFile
             /\ pipeline'.original_csv_file = NoFile
             /\ pipeline'.last_results = <<>>
             /\ pipeline'.user_preferences = pipeline.user_preferences
             /\ user_preferences' = user_preferences
       /\ (SessionCleared /\ PlannedAs(run_log', "follow_up"))
          => LookedUp(run_log')]_vars

\* a session that holds preferences and has filtered a file is cleared
C24_Witness ==
    /\ SessionCleared
    /\ pipeline.user_preferences # <<>>
    /\ pipeline.last_generated_csv # NoFile
    /\ pipeline.csv_chain = <<>>

\* the stage of a status in the workflow
Stage(status) ==
    IF status = "In cart" THEN 0
    ELSE IF status \in {"Approved", "Rejected"} THEN 2
    ELSE 1

\* C25: the status of a cart item never moves to an earlier stage, with
\* In cart before Recommended, Awaiting Approval and Non Compliant, and these
\* before Approved and Rejected.  Violated: a compliance check of an item that
\* is Approved or Rejected writes the status of the new verdict.
C25_StatusMonotone ==
    [][\A u \in Users :
          Len(user_carts'[u]) >= Len(user_carts[u])
          => \A i \in 1..Len(user_carts[u]) :
                Stage(user_carts'[u][i].compliance_status)
                   >= Stage(user_carts[u][i].compliance_status)]_vars

\* C26: once the accept or the reject of a request has been applied, a later
\* accept or reject of the same request does not change the status again.
\* Stated while one request exists, so that a decided status stems from it.
\* Violated: both buttons stay usable and each writes its status.
C26_DecisionApplied_Once ==
    [][(/\ Len(manager_inbox) = 1
        /\ handle_approval_accept(1) \/ handle_approval_reject(1))
       => LET requester_id == manager_inbox[1].accept_value[1]
              idx == FindInCart(user_carts[requester_id],
                                manager_inbox[1].accept_value[2])
          IN (idx # 0 /\ user_carts[requester_id][idx].compliance_status
                            \in {"Approved", "Rejected"})
                => user_carts' = user_carts]_vars

\* C27: an approval request is emitted only for an item whose status is
\* Awaiting Approval when approval is sought.  Violated: handle_seek_approval
\* reads no status, and the button is offered for a Non Compliant item.
C27_RequestOnlyWhenAwaiting ==
    [][Len(manager_inbox') > Len(manager_inbox)
       => LET request == manager_inbox'[Len(manager_inbox')]
              idx == FindInCart(user_carts[request.requester], request.accept_value[2])
          IN /\ idx # 0
             /\ user_carts[request.requester][idx].compliance_status
                   = "Awaiting Approval"]_vars

\* the elements of a chain
ChainSet(chain) == {chain[k] : k \in 1..Len(chain)}

\* C28: after a New query whose search succeeded (or that the cache served),
\* the chain starts at the query's root, every other artifact of it was saved
\* by the filter of this run, and the active artifact is one of the chain.
\* Violated: when the filter fails, the file an earlier query generated is
\* chained and made active.
C28_ChainOfThisQuery ==
    [][(/\ PlannedAs(run_log', "new")
        /\ Did(run_log', "rooted") \/ Did(run_log', "cache_hit"))
       => /\ pipeline'.csv_chain # <<>>
          /\ pipeline'.csv_chain[1] = pipeline'.original_csv_file
          /\ \A i \in 2..Len(pipeline'.csv_chain) :
                /\ Did(run_log', "reasoner_saved")
                /\ pipeline'.csv_chain[i] = pipeline'.last_generated_csv
          /\ Len(pipeline'.csv_chain) <= 1 + CountOf(run_log', "reasoner_saved")
          /\ pipeline'.previous_csv_file \in ChainSet(pipeline'.csv_chain)]_vars

\* the active artifact exists: the session has a chain to follow up on
HasChain ==
    /\ pipeline.previous_csv_file # NoFile
    /\ pipeline.previous_csv_file \in DOMAIN files

\* the handler answered that the filter kept nothing
NoMatch(out) == \E m \in out : m.text = "No products match your filter criteria"

\* C29: a FollowUp that finds a chain filters the current tail: no cache lookup
\* and no search is made, and when the filter saved a non-empty result, the
\* product rows of the result are rows of the tail and the result's file is
\* appended to the chain and becomes the tail and the active artifact.
C29_FollowUpFiltersTail ==
    [][(PlannedAs(run_log', "follow_up") /\ HasChain)
       => /\ ~LookedUp(run_log')
          /\ ~Did(run_log', "scraper")
          /\ (Did(run_log', "reasoner_saved") /\ ~NoMatch(outbox'))
             => /\ pipeline'.last_results # <<>>
                /\ \A k \in 1..Len(pipeline'.last_results) :
                      IsProductRow(pipeline'.last_results[k])
                      => pipeline'.last_results[k]
                            \in RowSet(files[pipeline.previous_csv_file])
                /\ pipeline'.csv_chain
                      = Append(pipeline.csv_chain, pipeline'.last_generated_csv)
                /\ pipeline'.previous_csv_file = pipeline'.last_generated_csv
                /\ pipeline'.last_generated_csv \in DOMAIN files']_vars

\* the filter of the run saved a file without rows
SavedNoRows ==
    /\ Did(run_log', "reasoner_saved")
    /\ pipeline'.last_generated_csv \in DOMAIN files'
    /\ files'[pipeline'.last_generated_csv] = <<>>

\* the run gave the chain a new root
Rooted(log) == Did(log, "rooted") \/ Did(log, "cache_hit")

\* C30: when the filter of a New query or of a FollowUp keeps no row, the
\* chain and the active artifact are as they were before the filter step: the
\* root alone for a New query, unchanged for a FollowUp.  Violated: the New
\* query chains the empty file and makes it active before it looks at the
\* results.
C30_EmptyResultKeepsChain ==
    [][SavedNoRows
       => /\ pipeline'.csv_chain =
                (IF Rooted(run_log') THEN <<pipeline'.original_csv_file>>
                 ELSE pipeline.csv_chain)
          /\ pipeline'.previous_csv_file =
                (IF Rooted(run_log') THEN pipeline'.original_csv_file
                 ELSE pipeline.previous_csv_file)]_vars

\* the search of the run found no usable row
SearchFoundNothing(log) ==
    PlannedAs(log, "new") /\ Did(log, "scraper") /\ ~Did(log, "rooted")

\* C31: when the search of a New query returns no usable row, the run ends
\* with the "failed to scrape" answer and the chain, the active artifact, the
\* last results and the product topic are unchanged.  Violated: the topic is
\* assigned before the search is made.
C31_NoResultsKeepsSession ==
    [][SearchFoundNothing(run_log')
       => /\ \E m \in outbox' : m.text = "Failed to scrape product data"
          /\ pipeline'.csv_chain = pipeline.csv_chain
          /\ pipeline'.previous_csv_file = pipeline.previous_csv_file
          /\ pipeline'.original_csv_file = pipeline.original_csv_file
          /\ pipeline'.last_results = pipeline.last_results
          /\ pipeline'.current_product_name = pipeline.current_product_name]_vars

\* C32: handling a Justification plan leaves the active artifact, the chain,
\* the last results, the preferences the run was called with and every cart
\* unchanged, and the user is answered with prose, also when no active
\* artifact exists.  (The preferences form, which replays a buffered query,
\* changes the preferences of its user before the run.)
C32_JustificationReadOnly ==
    [][PlannedAs(run_log', "justification")
       => /\ pipeline'.previous_csv_file = pipeline.previous_csv_file
          /\ pipeline'.original_csv_file = pipeline.original_csv_file
          /\ pipeline'.csv_chain = pipeline.csv_chain
          /\ pipeline'.last_results = pipeline.last_results
          /\ pipeline'.user_preferences = run_log'[1].preferences
          /\ \A v \in DOMAIN user_preferences :
                v # run_log'[1].user => user_preferences'[v] = user_preferences[v]
          /\ (\A m \in outbox' : m.text # "Preferences selected")
                => user_preferences' = user_preferences
          /\ user_carts' = user_carts
          /\ files' = files
          /\ \E m \in outbox' : m.text = "justification"]_vars

\* a justification is answered while the session has no active artifact and
\* the cart holds an item
C32_Witness ==
    /\ PlannedAs(run_log, "justification")
    /\ pipeline.previous_csv_file = NoFile
    /\ \E u \in Users : user_carts[u] # <<>>
    /\ \E m \in outbox : m.text = "justification"

\* the plan has the fields its type requires
WellFormed(plan) ==
    /\ plan.query_type \in {"justification", "new", "follow_up"}
    /\ plan.has_steps
    /\ plan.steps # <<>>

\* C33: a plan that lacks a required field is rejected: no handler executes
\* it and the session is unchanged.  Violated: a plan without query_type is
\* taken for a New plan and executed.
C33_MalformedPlanRejected ==
    [][\A u \in Users, e \in EnvsTail :
          (/\ u \in DOMAIN user_preferences
           /\ e.planner_ok
           /\ ~WellFormed(e.plan)
           /\ handle_message(u, "find mouse", e))
          => /\ pipeline' = pipeline
             /\ files' = files
             /\ run_log'[1].calls = <<>>]_vars

\* C34: the items of a purchase order that was created and delivered are no
\* longer in the cart of the user who ordered.  Violated: the handler never
\* removes an item, so the next Proceed to PO orders the same items again.
C34_OrderedItemsConsumed ==
    \A m \in outbox :
       (last_po # NoPO /\ m.text = "Here is your generated Purchase Order")
       => \A g \in 1..Len(last_po.lines) :
          \A l \in 1..Len(last_po.lines[g].line_items) :
             ~\E i \in 1..Len(user_carts[m.channel]) :
                /\ user_carts[m.channel][i].product.title
                      = last_po.lines[g].line_items[l].description
                /\ user_carts[m.channel][i].quantity
                      = last_po.lines[g].line_items[l].quantity

\* the price limit of a role, in rupees, as the fallback is described
RoleLimit(role) ==
    CASE role \in {"Senior Staff", "senior staff"} -> 50000
      [] role \in {"Manager", "manager"} -> 100000
      [] role \in {"Director", "director"} -> 500000
      [] OTHER -> 25000

\* C35: when the call of the compliance oracle fails, the item's status after
\* the check is Recommended if its price is within the limit of the user's
\* role and Awaiting Approval otherwise.  Violated: the fallback's verdict
\* "Needs Approval" is read as "Needs" and the item becomes Non Compliant.
C35_FallbackDecides ==
    [][\A u \in Users, pid \in ProductIds :
          (/\ FindInCart(user_carts[u], pid) # 0
           /\ handle_check_compliance(u, pid, {OracleError}))
          => user_carts'[u][FindInCart(user_carts[u], pid)].compliance_status
                = (IF PriceOf(user_carts[u][FindInCart(user_carts[u], pid)])
                         <= 100 * RoleLimit(RoleOf(u))
                   THEN "Recommended" ELSE "Awaiting Approval")]_vars

Statuses ==
    {"In cart", "Recommended", "Awaiting Approval", "Non Compliant", "Approved", "Rejected"}

\* C36: the compliance status of every item of every cart is one of In cart,
\* Recommended, Awaiting Approval, Non Compliant, Approved and Rejected, and
\* an item that add-to-cart appends starts as In cart.
C36_StatusDomain ==
    [][/\ \A u \in Users : \A i \in 1..Len(user_carts'[u]) :
             user_carts'[u][i].compliance_status \in Statuses
       /\ \A u \in Users :
             Len(user_carts'[u]) > Len(user_carts[u])
             => /\ Len(user_carts'[u]) = Len(user_carts[u]) + 1
                /\ user_carts'[u][Len(user_carts'[u])].compliance_status = "In cart"
                /\ SubSeq(user_carts'[u], 1, Len(user_carts[u])) = user_carts[u]]_vars

\* an item was added to a cart that holds an item decided by the manager
C36_Witness ==
    \E u \in Users :
       /\ Len(user_carts[u]) = 2
       /\ user_carts[u][1].compliance_status \in {"Approved", "Rejected"}
       /\ user_carts[u][2].compliance_status = "In cart"
       /\ Msg(u, "Added to your cart") \in outbox

\* whether last_results holds the rows of the active file previous_csv_file
ResultsMatchActive(pl, fs) ==
    IF pl.previous_csv_file = NoFile THEN pl.last_results = <<>>
    ELSE /\ pl.previous_csv_file \in DOMAIN fs
         /\ RowSet(pl.last_results) = RowSet(fs[pl.previous_csv_file])

\* C37: after every completed run of the pipeline, last_results holds the rows
\* of the active file previous_csv_file (and is empty when there is none).
\* Violated: a New query makes the scraped file the active one before its
\* filter runs, and last_results is assigned only when the filter returns rows.
C37_ResultsAreActiveRows ==
    [][HasRun(run_log') => ResultsMatchActive(pipeline', files')]_vars

\* C38: within one user's cart no two items carry the same product id.
\* Violated: add-to-cart appends without looking for the product in the cart,
\* so adding a product twice leaves two items with one id.
C38_UniqueProductIds ==
    \A u \in Users : \A i, j \in 1..Len(user_carts[u]) :
       ProductId(user_carts[u][i].product) = ProductId(user_carts[u][j].product)
       => i = j

\* C39: every purchase order generate_purchase_order returns has at least one
\* vendor group and every vendor group has at least one line item.
\* Violated: the group of a vendor is created before the item is skipped for
\* its unparseable price, so an order can carry a group with no line.
C39_NoEmptyGroups ==
    last_po # NoPO
    => /\ last_po.lines # <<>>
       /\ \A g \in 1..Len(last_po.lines) : last_po.lines[g].line_items # <<>>

\* C40: whenever a query of a user is buffered until the preferences are set,
\* the welcome message with the Set Preferences button has been delivered to
\* that user.
\* Violated: opening the home tab marks the welcome as sent without posting
\* it, and the user's first utterance is then buffered with no button.
C40_BufferedImpliesWelcomed ==
    \A u \in DOMAIN pending_queries : u \in welcome_delivered

====
